---- MODULE Spec2Model ----
(***************************************************************************)
(* Model of the Testr orchestration core: identifier handling, the test   *)
(* tree, result reconciliation (TestExecutionManager), the passed-result  *)
(* clear timer, and the child-process lifecycle of the Jest and PHPUnit   *)
(* runners.                                                                *)
(*                                                                         *)
(* Strings are sequences of one-character strings, so that split, join,   *)
(* replace and toLowerCase are computed and not assumed.                  *)
(***************************************************************************)
EXTENDS Integers, Sequences, FiniteSets, TLC

\* ------------------------------------------------------------------------
\* Strings
\* ------------------------------------------------------------------------

\* String.prototype.toLowerCase on one character (the alphabet of the model).
LowerChar(c) ==
    CASE c = "A" -> "a"
      [] c = "B" -> "b"
      [] c = "E" -> "e"
      [] c = "F" -> "f"
      [] c = "G" -> "g"
      [] c = "I" -> "i"
      [] c = "K" -> "k"
      [] c = "L" -> "l"
      [] c = "O" -> "o"
      [] c = "P" -> "p"
      [] c = "Q" -> "q"
      [] c = "R" -> "r"
      [] c = "S" -> "s"
      [] c = "T" -> "t"
      [] c = "U" -> "u"
      [] c = "X" -> "x"
      [] c = "Y" -> "y"
      [] c = "Z" -> "z"
      [] OTHER -> c

UpperChar(c) ==
    CASE c = "a" -> "A"
      [] c = "b" -> "B"
      [] c = "f" -> "F"
      [] c = "g" -> "G"
      [] c = "p" -> "P"
      [] c = "q" -> "Q"
      [] c = "s" -> "S"
      [] c = "t" -> "T"
      [] c = "z" -> "Z"
      [] OTHER -> c

toLowerCase(s) == [i \in 1..Len(s) |-> LowerChar(s[i])]

toUpperCase(s) == [i \in 1..Len(s) |-> UpperChar(s[i])]

\* The reserved separator '::'.
Sep == <<":", ":">>

\* Index of the first occurrence of '::' in s at or after position i, 0 if none.
RECURSIVE IndexOfSep(_, _)
IndexOfSep(s, i) ==
    IF i + 1 > Len(s) THEN 0
    ELSE IF s[i] = ":" /\ s[i + 1] = ":" THEN i
    ELSE IndexOfSep(s, i + 1)

\* s.split('::')
RECURSIVE Split(_)
Split(s) ==
    LET k == IndexOfSep(s, 1) IN
    IF k = 0 THEN <<s>>
    ELSE <<SubSeq(s, 1, k - 1)>> \o Split(SubSeq(s, k + 2, Len(s)))

\* parts.join(sep)
RECURSIVE Join(_, _)
Join(parts, sep) ==
    IF Len(parts) = 0 THEN <<>>
    ELSE IF Len(parts) = 1 THEN parts[1]
    ELSE parts[1] \o sep \o Join(Tail(parts), sep)

\* filePath.replace(/[\\/:]/g, '_')
generateId(filePath) ==
    [i \in 1..Len(filePath) |->
        IF filePath[i] \in {"/", "\\", ":"} THEN "_" ELSE filePath[i]]

\* testId.split('::')[0].replace(/_/g, '/')
extractFilePathFromTestId(testId) ==
    LET tok == Split(testId)[1] IN
    [i \in 1..Len(tok) |-> IF tok[i] = "_" THEN "/" ELSE tok[i]]

isMatchingFilePath(path1, path2) == toLowerCase(path1) = toLowerCase(path2)

\* ------------------------------------------------------------------------
\* The test tree
\* ------------------------------------------------------------------------

\* A discovered tree is given by its blocks in source order: block i has a
\* name and the index of its enclosing block (0 for a file-level root, whose
\* name is the file path).  Node i of the tree is the TestItem created for
\* block i.

\* suite.location.file of block i: the path of the file that contains it.
RECURSIVE NodeFile(_, _)
NodeFile(blocks, i) ==
    IF blocks[i].parent = 0 THEN blocks[i].name
    ELSE NodeFile(blocks, blocks[i].parent)

\* NodeId without the identifiers of the enclosing blocks.
NodeIdFromFile(blocks, i) ==
    IF blocks[i].parent = 0 THEN generateId(blocks[i].name)
    ELSE generateId(NodeFile(blocks, i)) \o Sep \o blocks[i].name

\* The identifier the conversion gives block i: the file token for the file,
\* else the identifier of the enclosing block, '::' and the name.
RECURSIVE NodeId(_, _)
NodeId(blocks, i) ==
    IF blocks[i].parent = 0 THEN generateId(blocks[i].name)
    ELSE NodeId(blocks, blocks[i].parent) \o Sep \o blocks[i].name

createTestItem(blocks) ==
    [i \in 1..Len(blocks) |->
        [id |-> NodeId(blocks, i), parent |-> blocks[i].parent,
         uri |-> NodeFile(blocks, i)]]

\* item.children (or testController.items for p = 0), in insertion order.
Children(t, p) == {i \in 1..Len(t) : t[i].parent = p}

Nodes(t) == 1..Len(t)

Leaves(t) == {i \in Nodes(t) : Children(t, i) = {}}

SetMax(S) == CHOOSE x \in S : \A y \in S : y <= x

SetMin(S) == CHOOSE x \in S : \A y \in S : x <= y

Blk(p, n) == [parent |-> p, name |-> n]

\* /p/f : describe S { it a; it b }
BlocksMath ==
    << Blk(0, <<"/", "p", "/", "f">>), Blk(1, <<"S">>),
       Blk(2, <<"a">>), Blk(2, <<"b">>) >>

\* /p/f : describe S { it a; it A }   (names that differ only in case)
BlocksCase ==
    << Blk(0, <<"/", "p", "/", "f">>), Blk(1, <<"S">>),
       Blk(2, <<"a">>), Blk(2, <<"A">>) >>

\* two project roots: /p/f : describe S { it a }   and   /q/g : it b
BlocksTwoRoots ==
    << Blk(0, <<"/", "p", "/", "f">>), Blk(1, <<"S">>), Blk(2, <<"a">>),
       Blk(0, <<"/", "q", "/", "g">>), Blk(4, <<"b">>) >>

\* two files of one project root: /p/f : it a   and   /p/g : it a
BlocksTwoFiles ==
    << Blk(0, <<"/", "p", "/", "f">>), Blk(1, <<"a">>),
       Blk(0, <<"/", "p", "/", "g">>), Blk(3, <<"a">>) >>

\* nesting and an empty describe: /p/f : describe S { describe T { it a } }, describe b { }
BlocksNested ==
    << Blk(0, <<"/", "p", "/", "f">>), Blk(1, <<"S">>), Blk(2, <<"T">>),
       Blk(3, <<"a">>), Blk(1, <<"b">>) >>

\* a name that contains the separator: /p/f : describe a { it z }, describe a::b { it t }
BlocksSep ==
    << Blk(0, <<"/", "p", "/", "f">>), Blk(1, <<"a">>), Blk(2, <<"z">>),
       Blk(1, <<"a", ":", ":", "b">>), Blk(4, <<"t">>) >>

\* a name that ends with a colon: /p/f : describe a: { it b }
BlocksColon ==
    << Blk(0, <<"/", "p", "/", "f">>), Blk(1, <<"a", ":">>), Blk(2, <<"b">>) >>

\* two files whose paths differ in letter case only: /p/f : it a   and   /p/F : it a
BlocksCaseFiles ==
    << Blk(0, <<"/", "p", "/", "f">>), Blk(1, <<"a">>),
       Blk(0, <<"/", "p", "/", "F">>), Blk(3, <<"a">>) >>

Trees ==
    { createTestItem(b) :
        b \in {BlocksMath, BlocksCase, BlocksTwoRoots, BlocksTwoFiles,
               BlocksNested, BlocksSep, BlocksColon} }

\* ------------------------------------------------------------------------
\* findTestItem
\* ------------------------------------------------------------------------

NoItem == 0

\* The normalisation findTestItem applies to both sides of a comparison.
normalizeId(s) == toLowerCase(s)

\* A forEach that takes the last of the items whatever its identifier.
lastMatchAnyItem(t, items, partialId, testId) ==
    IF items = {} THEN NoItem ELSE SetMax(items)

\* The item the forEach over currentItems leaves in foundItem: the last one
\* whose id matches the partial id or the whole test id.
lastMatch(t, items, partialId, testId) ==
    LET m == {n \in items :
                \/ normalizeId(t[n].id) = normalizeId(partialId)
                \/ normalizeId(t[n].id) = normalizeId(testId)}
    IN IF m = {} THEN NoItem ELSE SetMax(m)

RECURSIVE findLoop(_, _, _, _, _, _)
findLoop(t, testId, parts, i, cur, result) ==
    IF i > Len(parts) THEN result
    ELSE
        LET partialId == Join(SubSeq(parts, 1, i), Sep)
            foundItem == lastMatch(t, Children(t, cur), partialId, testId)
        IN  IF foundItem # NoItem
            THEN IF Children(t, foundItem) # {}
                 THEN findLoop(t, testId, parts, i + 1, foundItem, foundItem)
                 ELSE foundItem
            ELSE findLoop(t, testId, parts, i + 1, cur, result)

\* findTestItem as one lookup of the identifier among all items.
findTestItemById(t, testId) ==
    LET m == {n \in 1..Len(t) : normalizeId(t[n].id) = normalizeId(testId)}
    IN IF m = {} THEN NoItem ELSE CHOOSE n \in m : \A k \in m : n <= k

findTestItem(t, testId) == findLoop(t, testId, Split(testId), 1, 0, NoItem)

\* ------------------------------------------------------------------------
\* TestExecutionManager: pure helpers
\* ------------------------------------------------------------------------

\* request.include and request.exclude: a list of items, or undefined.
Undefined == [defined |-> FALSE, list |-> <<>>]

Defined(list) == [defined |-> TRUE, list |-> list]

RECURSIVE collectItemsRecursively(_, _)
RECURSIVE collectChildren(_, _)
\* Leaves below item, depth first, children in insertion order.
collectItemsRecursively(t, item) ==
    IF Children(t, item) = {} THEN <<item>>
    ELSE collectChildren(t, Children(t, item))

collectChildren(t, kids) ==
    IF kids = {} THEN <<>>
    ELSE LET k == SetMin(kids)
         IN collectItemsRecursively(t, k) \o collectChildren(t, kids \ {k})

RECURSIVE collectIncluded(_, _)
collectIncluded(t, include) ==
    IF Len(include) = 0 THEN <<>>
    ELSE collectItemsRecursively(t, Head(include)) \o collectIncluded(t, Tail(include))

RECURSIVE FilterSeq(_, _)
\* array.filter(x => x \notin drop)
FilterSeq(seq, drop) ==
    IF Len(seq) = 0 THEN <<>>
    ELSE (IF Head(seq) \in drop THEN <<>> ELSE <<Head(seq)>>)
         \o FilterSeq(Tail(seq), drop)

\* collectTestItems without the filter on request.exclude.
collectTestItemsKeepExcluded(t, request) ==
    IF request.include.defined
    THEN collectIncluded(t, request.include.list)
    ELSE collectChildren(t, Children(t, 0))

collectTestItems(t, request) ==
    LET items == IF request.include.defined
                 THEN collectIncluded(t, request.include.list)
                 ELSE collectChildren(t, Children(t, 0))
    IN  IF request.exclude.defined
        THEN LET excludeIds == {t[request.exclude.list[i]].id :
                                  i \in 1..Len(request.exclude.list)}
             IN FilterSeq(items, {n \in Nodes(t) : t[n].id \in excludeIds})
        ELSE items

\* isSingleTestSuiteRun without the test on request.include.
isSingleTestSuiteRunAnyRequest(t, request, testItems) ==
    Cardinality({toLowerCase(extractFilePathFromTestId(t[testItems[i]].id)) :
                   i \in 1..Len(testItems)}) = 1

isSingleTestSuiteRun(t, request, testItems) ==
    IF ~request.include.defined \/ Len(request.include.list) = 0 THEN FALSE
    ELSE Cardinality({toLowerCase(extractFilePathFromTestId(t[testItems[i]].id)) :
                        i \in 1..Len(testItems)}) = 1

Null == <<"null">>

getTargetFilePath(t, testItems) ==
    IF Len(testItems) = 0 THEN Null
    ELSE extractFilePathFromTestId(t[testItems[1]].id)

\* The keys of resultsByFile in insertion order.
RECURSIVE fileKeys(_, _)
fileKeys(results, seen) ==
    IF Len(results) = 0 THEN <<>>
    ELSE LET fp == extractFilePathFromTestId(Head(results).testId)
         IN IF fp \in seen THEN fileKeys(Tail(results), seen)
            ELSE <<fp>> \o fileKeys(Tail(results), seen \cup {fp})

RECURSIVE resultsOfFile(_, _)
resultsOfFile(results, fp) ==
    IF Len(results) = 0 THEN <<>>
    ELSE (IF extractFilePathFromTestId(Head(results).testId) = fp
          THEN <<Head(results)>> ELSE <<>>)
         \o resultsOfFile(Tail(results), fp)

\* The results in the order in which the loops over resultsByFile visit them,
\* without the files a single-suite run skips.
RECURSIVE visitFiles(_, _, _, _)
visitFiles(results, keys, isSingleSuiteRun, targetFilePath) ==
    IF Len(keys) = 0 THEN <<>>
    ELSE LET fp == Head(keys)
             skip == /\ isSingleSuiteRun
                     /\ targetFilePath # Null
                     /\ ~isMatchingFilePath(fp, targetFilePath)
         IN (IF skip THEN <<>> ELSE resultsOfFile(results, fp))
            \o visitFiles(results, Tail(keys), isSingleSuiteRun, targetFilePath)

visitedResults(results, isSingleSuiteRun, targetFilePath) ==
    visitFiles(results, fileKeys(results, {}), isSingleSuiteRun, targetFilePath)

\* The files for which logFileStats is called: the keys of resultsByFile
\* without those a single-suite run skips.
loggedFiles(results, isSingleSuiteRun, targetFilePath) ==
    LET keys == fileKeys(results, {})
    IN {keys[i] : i \in {k \in 1..Len(keys) :
            ~(/\ isSingleSuiteRun
              /\ targetFilePath # Null
              /\ ~isMatchingFilePath(keys[k], targetFilePath))}}

\* logOverallStats is called whatever the kind of run.
logsOverallStatsAlways(isSingleSuiteRun) == TRUE

\* if (!isSingleSuiteRun) logOverallStats(...)
logsOverallStats(isSingleSuiteRun) == ~isSingleSuiteRun

\* The status the switch over testResult.status reports on the run.
reportedStatus(st) ==
    CASE st = "passed" -> "passed"
      [] st = "failed" -> "failed"
      [] OTHER -> "skipped"

\* passedItems.push(testItem) happens in the Passed case only.
pushesPassed(st) == st = "passed"

\* One pass over the visited results.  acc carries what the run has done:
\*   shown       the state each item displays,
\*   last        the last status this run reported per item ("none" if none),
\*   reported    the <<item, status>> pairs this run reported,
\*   passedItems the items pushed to passedItems.
RECURSIVE reconcile(_, _, _)
reconcile(t, visited, acc) ==
    IF Len(visited) = 0 THEN acc
    ELSE LET res == Head(visited)
             testItem == findTestItem(t, res.testId)
         IN IF testItem = NoItem THEN reconcile(t, Tail(visited), acc)
            ELSE LET st == reportedStatus(res.status)
                 IN reconcile(t, Tail(visited),
                      [shown |-> [acc.shown EXCEPT ![testItem] = st],
                       last |-> [acc.last EXCEPT ![testItem] = st],
                       reported |-> acc.reported \cup {<<testItem, st>>},
                       passedItems |-> IF pushesPassed(res.status)
                                       THEN acc.passedItems \cup {testItem}
                                       ELSE acc.passedItems])

\* A catch block that reports nothing on the run.
markNoneFailed(items, acc) == acc

\* The catch block: run.failed for every collected item.
markAllFailed(items, acc) ==
    LET S == {items[i] : i \in 1..Len(items)}
    IN [shown |-> [n \in DOMAIN acc.shown |-> IF n \in S THEN "failed" ELSE acc.shown[n]],
        last |-> [n \in DOMAIN acc.last |-> IF n \in S THEN "failed" ELSE acc.last[n]],
        reported |-> acc.reported \cup {<<n, "failed">> : n \in S},
        passedItems |-> acc.passedItems]

\* ------------------------------------------------------------------------
\* State
\* ------------------------------------------------------------------------

VARIABLES
    profile,              \* which inputs the environment draws (fixed by Init)
    tree,                 \* testController.items, as built by discovery
    wsFolders,            \* vscode.workspace.workspaceFolders (indices of open roots)
    shown,                \* the state each item displays in the host
    clearResultsTimeout,  \* TestExecutionManager.clearResultsTimeout (0: undefined)
    timers,               \* the pending setTimeout callbacks of the manager
    fired,                \* ids of the timers whose callback has run
    runs,                 \* the runTests invocations of the manager
    reqId,                \* findTestItem: the identifier looked up
    found,                \* findTestItem: the item returned (NotCalled before the call)
    rn,                   \* one runTests call of a runner and its child process
    disc,                 \* the root items of the controller and the discovery passes
    adp,                  \* one discoverTests call of an adapter
    con                   \* one parse of the output of a test process

vars == <<profile, tree, wsFolders, shown, clearResultsTimeout, timers, fired,
          runs, reqId, found, rn, disc, adp, con>>

execVars == <<wsFolders, shown, clearResultsTimeout, timers, fired, runs>>

nonExecVars == <<reqId, found, rn, disc, adp, con>>

\* ------------------------------------------------------------------------
\* Bounds and inputs
\* ------------------------------------------------------------------------

MaxRuns == 3          \* runTests invocations when runs may overlap
MaxResults == 2       \* result records the adapters return in one run
MaxInclude == 1       \* length of request.include
MaxExclude == 1       \* length of request.exclude
TickMs == 2500        \* granularity of the passage of time
MaxIncludeMany == 2   \* length of request.include when requests are studied alone
MaxPasses == 2        \* discoverAllTests invocations, which may overlap
MaxFiles == 3         \* candidate test files of one project root
MaxLines == 2         \* lines of console output given to the fallback parser
MaxAssertions == 2    \* assertion results in the JSON output of Jest
MaxIds == 3           \* identifiers given to the builder of the Jest command line
MaxBlocks == 3        \* describe and test blocks of one parsed file
MaxRegs == 3          \* registerAdapter calls on one registry
MaxRediscoveries == 1 \* discovery passes that start while a run is under way
MaxEvents == 4        \* file events a watcher reports
MaxCases == 2         \* testcase elements of one JUnit report
MaxSource == 5        \* lines of one Jest test file
WatchTickMs == 125    \* the step of time while a debounce timer is pending

passedResultClearDelayMs == 5000

\* The project roots that can be open, by index, and their paths.
FolderPath(f) == IF f = 1 THEN <<"/", "p">> ELSE <<"/", "q">>

FolderLists ==
    IF profile = "timers" THEN {<<>>, <<1>>} ELSE {<<>>, <<1>>, <<1, 2>>}

IsPrefix(a, b) == Len(a) <= Len(b) /\ SubSeq(b, 1, Len(a)) = a

\* The file of item n lies under project root f.
ownedBy(t, n, f) == IsPrefix(FolderPath(f) \o <<"/">>, t[n].uri)

SeqsUpTo(S, k) == UNION {[1..m -> S] : m \in 0..k}

\* The lists of at most k different elements of S.
DistinctSeqsUpTo(S, k) ==
    {q \in SeqsUpTo(S, k) : \A i, j \in 1..Len(q) : q[i] = q[j] => i = j}

ExecTrees == {createTestItem(b) : b \in {BlocksCase, BlocksTwoRoots}}

TimerTrees == {createTestItem(BlocksMath)}

runLimit == IF profile = "timers" THEN MaxRuns ELSE 1

Requests(t) ==
    IF profile \in {"timers", "rerun"}
    THEN {[include |-> Undefined, exclude |-> Undefined]}
    ELSE IF profile = "collect"
    THEN {[include |-> i, exclude |-> e] :
            i \in {Undefined} \cup {Defined(l) : l \in DistinctSeqsUpTo(Nodes(t), MaxIncludeMany)},
            e \in {Undefined} \cup {Defined(l) : l \in SeqsUpTo(Nodes(t), MaxExclude)}}
    ELSE {[include |-> i, exclude |-> e] :
            i \in {Undefined} \cup {Defined(l) : l \in SeqsUpTo(Nodes(t), MaxInclude)},
            e \in {Undefined} \cup {Defined(l) : l \in SeqsUpTo(Leaves(t), MaxExclude)}}

AdapterStatuses ==
    IF profile = "timers" THEN {"passed", "failed"}
    ELSE {"passed", "failed", "skipped"}

\* How a detection or an adapter call can settle.
Outcomes ==
    IF profile = "timers" THEN {"value"} ELSE {"value", "none", "raise"}

\* Identifiers an adapter can put into a result record: those of the leaves
\* and the name of a test that the suite of the first leaf does not have.
AdapterIds(t) ==
    LET first == SetMin(Leaves(t))
    IN IF profile = "timers" THEN {t[first].id}
       ELSE {t[n].id : n \in Leaves(t)}
            \cup {t[t[first].parent].id \o Sep \o <<"z">>}

\* The result sequences an adapter call can return when the run may still
\* receive k records (one record at most per call when runs may overlap).
AdapterResults(t, k) ==
    LET recs == {[testId |-> i, status |-> st] : i \in AdapterIds(t), st \in AdapterStatuses}
    IN SeqsUpTo(recs, IF profile \in {"timers", "rerun"} /\ k > 0 THEN 1 ELSE k)

IdleRun(t) ==
    [pc |-> "idle",
     request |-> [include |-> Undefined, exclude |-> Undefined],
     items |-> <<>>, isSingleSuiteRun |-> FALSE, targetFilePath |-> Null,
     wsf |-> <<>>, folder |-> 0,
     last |-> [n \in Nodes(t) |-> "none"], reported |-> {}, passedItems |-> {},
     nResults |-> 0, named |-> {}, exact |-> {}, calls |-> <<>>,
     errored |-> FALSE, ended |-> FALSE, scheduled |-> FALSE,
     startedAfterEnd |-> FALSE,
     returned |-> FALSE, resultFiles |-> {}, fileStats |-> {},
     overallStats |-> FALSE, statusBar |-> "none", ends |-> 0]

InitManager ==
    /\ wsFolders \in FolderLists
    /\ shown = [n \in Nodes(tree) |-> "unset"]
    /\ clearResultsTimeout = 0
    /\ timers = {}
    /\ fired = {}
    /\ runs = [r \in 1..MaxRuns |-> IdleRun(tree)]

NotCalled == -1

\* The result record of createEmptyResult().
EmptyResult == [passed |-> 0, failed |-> 0, skipped |-> 0, results |-> <<>>]

\* A runner on which runTests has not been called.  The field first keeps
\* which of cancellation, 'close' and 'error' came first in the call.
NoRunner ==
    [kind |-> "none", replays |-> FALSE, pc |-> "idle",
     cancelRequested |-> FALSE, cancelBeforeOutput |-> FALSE,
     listener |-> "none", replayPending |-> FALSE, handlers |-> FALSE,
     kills |-> 0, stdout |-> "none", report |-> "none",
     closed |-> FALSE, errored |-> FALSE, closeHandler |-> "idle",
     cancelHandled |-> FALSE, errorHandled |-> FALSE,
     first |-> "none", settled |-> FALSE, value |-> EmptyResult]

\* An adapter on which discoverTests has not been called.
NoAdapterCall ==
    [pc |-> "idle", candidates |-> <<>>, testFiles |-> <<>>, next |-> 0,
     suites |-> <<>>, testCount |-> 0]

\* A runner that has no output to parse.
NoConsole == [pc |-> "idle", output |-> <<>>, testIds |-> <<>>, results |-> <<>>]

\* A controller on which no discovery pass is followed.
NoDiscovery == [items |-> {}, files |-> <<>>, detects |-> {}, pass |-> <<>>]

InitExec ==
    /\ profile = "exec"
    /\ tree \in ExecTrees
    /\ InitManager
    /\ reqId = <<>>
    /\ found = NotCalled
    /\ rn = NoRunner
    /\ disc = NoDiscovery
    /\ adp = NoAdapterCall
    /\ con = NoConsole

InitTimers ==
    /\ profile = "timers"
    /\ tree \in TimerTrees
    /\ InitManager
    /\ reqId = <<>>
    /\ found = NotCalled
    /\ rn = NoRunner
    /\ disc = NoDiscovery
    /\ adp = NoAdapterCall
    /\ con = NoConsole

\* ------------------------------------------------------------------------
\* TestExecutionManager.runTests
\* ------------------------------------------------------------------------

idsOf(t, items) == [i \in 1..Len(items) |-> t[items[i]].id]

\* The identifiers runTests hands to the adapter of project root f, if it
\* kept those of the leaves of that root only.
testIdsOfRoot(t, items, f) ==
    idsOf(t, FilterSeq(items, {n \in Nodes(t) : ~ownedBy(t, n, f)}))

\* The identifiers runTests hands to the adapter of project root f.
testIdsFor(t, items, f) == idsOf(t, items)

\* if (this.clearResultsTimeout) clearTimeout(this.clearResultsTimeout)
cancelPending(ts, ref) == IF ref # 0 THEN {x \in ts : x.id # ref} ELSE ts

\* setTimeout(..., a delay one tick short)
clearDelayShort == passedResultClearDelayMs - TickMs

\* setTimeout(..., this.passedResultClearDelayMs)
clearDelay == passedResultClearDelayMs

\* if (passedItems.length > 0)
schedulesClear(passedItems) == passedItems # {}

\* The part of the run that is visible to reconcile.
accOf(rec) ==
    [shown |-> shown, last |-> rec.last, reported |-> rec.reported,
     passedItems |-> rec.passedItems]

withAcc(rec, acc) ==
    [rec EXCEPT !.last = acc.last, !.reported = acc.reported,
                !.passedItems = acc.passedItems]

\* The next iteration of the loop over workspaceFolders, or the code after it.
advance(rec) ==
    IF rec.folder < Len(rec.wsf)
    THEN [rec EXCEPT !.pc = "detect", !.folder = @ + 1]
    ELSE [rec EXCEPT !.pc = "end"]

\* commit without the call of run.end().
commitWithoutEnd(r, rec, sh) ==
    /\ shown' = sh
    /\ IF rec.pc = "end"
       THEN /\ runs' = [runs EXCEPT ![r] =
                          [rec EXCEPT !.pc = "done",
                                      !.scheduled = schedulesClear(rec.passedItems)]]
            /\ IF schedulesClear(rec.passedItems)
               THEN /\ timers' = timers \cup
                          {[id |-> r, items |-> rec.passedItems,
                            delay |-> clearDelay, elapsed |-> 0]}
                    /\ clearResultsTimeout' = r
               ELSE UNCHANGED <<timers, clearResultsTimeout>>
       ELSE /\ runs' = [runs EXCEPT ![r] = rec]
            /\ UNCHANGED <<timers, clearResultsTimeout>>

\* Writes the run back; when the loop is over (or the catch block has run)
\* this is run.end() and the scheduling of the clear.
commit(r, rec, sh) ==
    /\ shown' = sh
    /\ IF rec.pc = "end"
       THEN /\ runs' = [runs EXCEPT ![r] =
                          [rec EXCEPT !.pc = "done", !.ended = TRUE,
                                      !.ends = @ + 1,
                                      !.scheduled = schedulesClear(rec.passedItems)]]
            /\ IF schedulesClear(rec.passedItems)
               THEN /\ timers' = timers \cup
                          {[id |-> r, items |-> rec.passedItems,
                            delay |-> clearDelay, elapsed |-> 0]}
                    /\ clearResultsTimeout' = r
               ELSE UNCHANGED <<timers, clearResultsTimeout>>
       ELSE /\ runs' = [runs EXCEPT ![r] = rec]
            /\ UNCHANGED <<timers, clearResultsTimeout>>

\* The catch block followed by the end of the run.
fail(r, rec) ==
    LET acc == markAllFailed(rec.items, accOf(rec))
    IN commit(r, [withAcc(rec, acc) EXCEPT !.pc = "end", !.errored = TRUE,
                                           !.statusBar = "error"],
              acc.shown)

\* runTests is invoked: everything up to the first await.
RunStart(r) ==
    /\ r <= runLimit
    /\ runs[r].pc = "idle"
    /\ \A q \in 1..(r - 1) : runs[q].pc # "idle"
    /\ \E request \in Requests(tree) :
        LET noted == [q \in DOMAIN runs |->
                        IF runs[q].pc = "done"
                        THEN [runs[q] EXCEPT !.startedAfterEnd = TRUE]
                        ELSE runs[q]]
            items == collectTestItems(tree, request)
            single == isSingleTestSuiteRun(tree, request, items)
        IN  /\ timers' = cancelPending(timers, clearResultsTimeout)
            /\ clearResultsTimeout' = 0
            /\ IF Len(wsFolders) = 0
               THEN /\ runs' = [noted EXCEPT ![r] =
                                  [@ EXCEPT !.pc = "done", !.request = request,
                                            !.ended = TRUE, !.ends = @ + 1]]
                    /\ UNCHANGED shown
               ELSE /\ runs' = [noted EXCEPT ![r] =
                                  [@ EXCEPT !.pc = "detect", !.request = request,
                                            !.items = items,
                                            !.isSingleSuiteRun = single,
                                            !.targetFilePath =
                                                IF single THEN getTargetFilePath(tree, items)
                                                ELSE Null,
                                            !.statusBar = "running",
                                            !.wsf = wsFolders, !.folder = 1]]
                    /\ shown' = [n \in Nodes(tree) |->
                                    IF \E i \in 1..Len(items) : items[i] = n
                                    THEN "started" ELSE shown[n]]
    /\ UNCHANGED <<profile, tree, wsFolders, fired, nonExecVars>>

\* adapterRegistry.detectFramework(folder) settles.
DetectReturn(r) ==
    /\ runs[r].pc = "detect"
    /\ LET rec == runs[r]
           f == rec.wsf[rec.folder]
       IN \E outcome \in Outcomes :
            CASE outcome = "value" ->
                    \* an adapter: adapter.runTests(folder, testIds, token) is called
                    /\ runs' = [runs EXCEPT ![r] =
                           [rec EXCEPT !.pc = "adapter",
                                       !.calls = Append(@, [folder |-> f,
                                           testIds |-> testIdsFor(tree, rec.items, f)])]]
                    /\ UNCHANGED <<shown, timers, clearResultsTimeout>>
              [] outcome = "none" ->
                    \* no adapter: continue with the next folder
                    commit(r, advance(rec), shown)
              [] OTHER ->
                    \* detection raises
                    fail(r, rec)
    /\ UNCHANGED <<profile, tree, wsFolders, fired, nonExecVars>>

\* adapter.runTests settles.
AdapterReturn(r) ==
    /\ runs[r].pc = "adapter"
    /\ LET rec == runs[r]
       IN \E outcome \in Outcomes \ {"none"} :
          IF outcome = "value" THEN
             \E results \in AdapterResults(tree, MaxResults - rec.nResults) :
                LET visited == visitedResults(results, rec.isSingleSuiteRun,
                                              rec.targetFilePath)
                    acc == reconcile(tree, visited, accOf(rec))
                    ids == {results[i].testId : i \in 1..Len(results)}
                    rec2 == [withAcc(rec, acc) EXCEPT
                               !.nResults = @ + Len(results),
                               !.named = @ \cup {n \in Nodes(tree) :
                                   \E i \in ids : toLowerCase(i) = toLowerCase(tree[n].id)},
                               !.exact = @ \cup {n \in Nodes(tree) : tree[n].id \in ids},
                               !.returned = TRUE,
                               !.resultFiles = @ \cup
                                   {extractFilePathFromTestId(i) : i \in ids},
                               !.fileStats = @ \cup
                                   loggedFiles(results, rec.isSingleSuiteRun,
                                               rec.targetFilePath),
                               !.overallStats =
                                   @ \/ logsOverallStats(rec.isSingleSuiteRun),
                               !.statusBar = "results"]
                IN commit(r, advance(rec2), acc.shown)
          ELSE fail(r, rec)
    /\ UNCHANGED <<profile, tree, wsFolders, fired, nonExecVars>>

\* invalidatePassedItems: a run over the items that is ended without any state.
invalidatePassedItems(sh, items) ==
    [n \in DOMAIN sh |-> IF n \in items THEN "unset" ELSE sh[n]]

\* The callback of a pending timer runs.
TimerFire ==
    /\ \E x \in timers :
        /\ x.elapsed >= x.delay
        /\ timers' = timers \ {x}
        /\ fired' = fired \cup {x.id}
        /\ shown' = invalidatePassedItems(shown, x.items)
    /\ UNCHANGED <<profile, tree, wsFolders, clearResultsTimeout, runs, nonExecVars>>

\* Time passes.
Tick ==
    /\ \E x \in timers : x.elapsed < x.delay
    /\ timers' = {[x EXCEPT !.elapsed = IF @ < x.delay THEN @ + TickMs ELSE @] :
                    x \in timers}
    /\ UNCHANGED <<profile, tree, wsFolders, shown, clearResultsTimeout, fired,
                   runs, nonExecVars>>

\* The host opens or closes project roots (observable by later runTests calls
\* only: a run reads workspaceFolders once, when it starts).
ChangeWorkspaceFolders ==
    /\ \E r \in 1..runLimit : runs[r].pc = "idle"
    /\ \E w \in FolderLists \ {wsFolders} : wsFolders' = w
    /\ UNCHANGED <<profile, tree, shown, clearResultsTimeout, timers, fired,
                   runs, nonExecVars>>

NextExec ==
    \/ \E r \in 1..MaxRuns : RunStart(r)
    \/ \E r \in 1..MaxRuns : DetectReturn(r)
    \/ \E r \in 1..MaxRuns : AdapterReturn(r)
    \/ TimerFire
    \/ Tick
    \/ ChangeWorkspaceFolders

SpecExec == InitExec /\ [][NextExec]_vars

SpecTimers == InitTimers /\ [][NextExec]_vars

\* ------------------------------------------------------------------------
\* discoverAllTests while runTests is under way
\* ------------------------------------------------------------------------

\* A TestItem lives as long as something refers to it: the items a run
\* collected stay in tree after the controller has dropped them.  An item
\* the controller dropped has parent -1 where it had 0.

\* testController.items.replace([])
clearItems(t) ==
    [n \in 1..Len(t) |-> IF t[n].parent = 0 THEN [t[n] EXCEPT !.parent = -1] ELSE t[n]]

\* createTestItem and testController.items.add for the suites of a pass: new
\* items, after those that exist.
addItems(t, blocks) ==
    LET new == createTestItem(blocks)
    IN t \o [n \in 1..Len(new) |->
               IF new[n].parent = 0 THEN new[n]
               ELSE [new[n] EXCEPT !.parent = @ + Len(t)]]

InitRediscover ==
    /\ profile = "rerun"
    /\ tree = createTestItem(BlocksMath)
    /\ InitManager
    /\ reqId = <<>>
    /\ found = NotCalled
    /\ rn = NoRunner
    /\ disc = NoDiscovery
    /\ adp = NoAdapterCall
    /\ con = NoConsole

\* discoverAllTests is invoked while a run awaits its adapter: the items of
\* the controller are replaced by nothing.
RediscoverClear ==
    /\ \E r \in 1..runLimit : runs[r].pc = "adapter"
    /\ Len(tree) <= MaxRediscoveries * Len(BlocksMath)
    /\ Children(tree, 0) # {}
    /\ tree' = clearItems(tree)
    /\ UNCHANGED <<profile, execVars, nonExecVars>>

\* discoverTests of that pass settles and its suites are added.
RediscoverAdd ==
    /\ Len(tree) > 0
    /\ Children(tree, 0) = {}
    /\ tree' = addItems(tree, BlocksMath)
    /\ shown' = [n \in Nodes(tree') |-> IF n \in DOMAIN shown THEN shown[n] ELSE "unset"]
    /\ runs' = [r \in DOMAIN runs |->
                  [runs[r] EXCEPT !.last =
                      [n \in Nodes(tree') |->
                          IF n \in DOMAIN runs[r].last THEN runs[r].last[n]
                          ELSE "none"]]]
    /\ UNCHANGED <<profile, wsFolders, clearResultsTimeout, timers, fired, nonExecVars>>

NextRediscover ==
    \/ NextExec
    \/ RediscoverClear
    \/ RediscoverAdd

SpecRediscover == InitRediscover /\ [][NextRediscover]_vars

\* Every detection and every adapter call of a run settles.
SpecRediscoverFair ==
    SpecRediscover
    /\ WF_vars(\E r \in 1..MaxRuns : DetectReturn(r) \/ AdapterReturn(r))

\* ------------------------------------------------------------------------
\* TestFileWatcher
\* ------------------------------------------------------------------------

FILE_WATCHER_DEBOUNCE_MS == 500

\* A watcher after its construction.  debounceTimer is the timer the field
\* refers to (0: undefined), pending the timers that have not run and were
\* not cleared.  kind is what the last event reported, sinceEvent the time
\* since then, burst the number of events up to the last one that came less
\* than the delay after the one before, calls the number of times
\* onChangeCallback ran since the last event, and calledAt the value of
\* sinceEvent when it ran last.
NewWatcher ==
    [pc |-> "watching", debounceTimer |-> 0, pending |-> {}, events |-> 0,
     kind |-> "none", sinceEvent |-> 0, burst |-> 0, calls |-> 0, calledAt |-> 0]

\* clearTimeout(this.debounceTimer) if the field is set
clearDebounce(w) ==
    IF w.debounceTimer # 0
    THEN [w EXCEPT !.pending = {x \in @ : x.id # w.debounceTimer}]
    ELSE w

\* triggerRefresh that starts a timer and clears none.
triggerRefreshKeepTimer(w) ==
    [w EXCEPT !.pending = @ \cup {[id |-> w.events + 1, elapsed |-> 0]},
              !.debounceTimer = w.events + 1]

\* triggerRefresh: the timer of the field is cleared and a new one started.
triggerRefresh(w) ==
    [clearDebounce(w) EXCEPT
        !.pending = @ \cup {[id |-> w.events + 1, elapsed |-> 0]},
        !.debounceTimer = w.events + 1]

InitWatch ==
    /\ profile = "watch"
    /\ tree = createTestItem(BlocksMath)
    /\ wsFolders = <<1>>
    /\ shown = [n \in Nodes(tree) |-> "unset"]
    /\ clearResultsTimeout = 0
    /\ timers = {}
    /\ fired = {}
    /\ runs = [r \in 1..MaxRuns |-> IdleRun(tree)]
    /\ reqId = <<>>
    /\ found = NotCalled
    /\ rn = NoRunner
    /\ disc = NoDiscovery
    /\ adp = NoAdapterCall
    /\ con = NewWatcher

\* A watcher reports that a file was created, changed or deleted.
WatchEvent ==
    /\ con.pc = "watching"
    /\ con.events < MaxEvents
    /\ \E kind \in {"create", "change", "delete"} :
         con' = [triggerRefresh(con) EXCEPT
                    !.events = @ + 1, !.kind = kind, !.sinceEvent = 0,
                    !.burst = IF con.events > 0
                                 /\ con.sinceEvent < FILE_WATCHER_DEBOUNCE_MS
                              THEN @ + 1 ELSE 1,
                    !.calls = 0]
    /\ UNCHANGED <<profile, tree, execVars, reqId, found, rn, disc, adp>>

\* Time passes; a timer that is due runs before more time passes.
WatchTick ==
    /\ con.pending # {}
    /\ \A x \in con.pending : x.elapsed < FILE_WATCHER_DEBOUNCE_MS
    /\ con' = [con EXCEPT !.pending = {[x EXCEPT !.elapsed = @ + WatchTickMs] : x \in @},
                          !.sinceEvent = @ + WatchTickMs]
    /\ UNCHANGED <<profile, tree, execVars, reqId, found, rn, disc, adp>>

\* The callback of a timer that is due runs: this.onChangeCallback().
WatchFire ==
    /\ \E x \in con.pending :
         /\ x.elapsed >= FILE_WATCHER_DEBOUNCE_MS
         /\ con' = [con EXCEPT !.pending = @ \ {x}, !.calls = @ + 1,
                               !.calledAt = con.sinceEvent]
    /\ UNCHANGED <<profile, tree, execVars, reqId, found, rn, disc, adp>>

\* dispose(): the timer is cleared and the watchers are disposed, which
\* report nothing from then on.
WatchDispose ==
    /\ con.pc = "watching"
    /\ con' = [clearDebounce(con) EXCEPT !.pc = "disposed"]
    /\ UNCHANGED <<profile, tree, execVars, reqId, found, rn, disc, adp>>

NextWatch ==
    \/ WatchEvent
    \/ WatchTick
    \/ WatchFire
    \/ WatchDispose

SpecWatch == InitWatch /\ [][NextWatch]_vars

\* The start of a run on its own: any discovered tree, any request (several
\* included items, items of any depth in both lists), one project root open.
InitCollect ==
    /\ profile = "collect"
    /\ tree \in Trees \cup {createTestItem(BlocksCaseFiles)}
    /\ wsFolders = <<1>>
    /\ shown = [n \in Nodes(tree) |-> "unset"]
    /\ clearResultsTimeout = 0
    /\ timers = {}
    /\ fired = {}
    /\ runs = [r \in 1..MaxRuns |-> IdleRun(tree)]
    /\ reqId = <<>>
    /\ found = NotCalled
    /\ rn = NoRunner
    /\ disc = NoDiscovery
    /\ adp = NoAdapterCall
    /\ con = NoConsole

NextCollect ==
    \/ RunStart(1)
    \/ DetectReturn(1)

SpecCollect == InitCollect /\ [][NextCollect]_vars

\* ------------------------------------------------------------------------
\* TestDiscoveryManager.discoverAllTests
\* ------------------------------------------------------------------------

\* The test files that can lie under a project root.
FilesUnder(f) ==
    IF f = 1 THEN {<<"/", "p", "/", "f">>, <<"/", "p", "/", "g">>}
    ELSE {<<"/", "q", "/", "g">>}

\* A pass that was not started; found collects the suites its discoverTests
\* calls return.
IdlePass == [pc |-> "idle", wsf |-> <<>>, folder |-> 0, found |-> {}]

\* The root items a pass over the open project roots adds in all: one per
\* test file of each root for which an adapter is detected.
CompleteTree ==
    UNION {disc.files[wsFolders[i]] :
             i \in {k \in 1..Len(wsFolders) : wsFolders[k] \in disc.detects}}

InitDiscover ==
    /\ profile = "discover"
    /\ tree = createTestItem(BlocksTwoRoots)
    /\ wsFolders \in FolderLists
    /\ shown = [n \in Nodes(tree) |-> "unset"]
    /\ clearResultsTimeout = 0
    /\ timers = {}
    /\ fired = {}
    /\ runs = [r \in 1..MaxRuns |-> IdleRun(tree)]
    /\ reqId = <<>>
    /\ found = NotCalled
    /\ rn = NoRunner
    /\ adp = NoAdapterCall
    /\ con = NoConsole
    /\ \E files \in [1..2 -> SUBSET (FilesUnder(1) \cup FilesUnder(2))],
          detects \in SUBSET (1..2) :
         /\ \A f \in 1..2 : files[f] \subseteq FilesUnder(f)
         /\ disc = [items |-> {}, files |-> files, detects |-> detects,
                    pass |-> [p \in 1..MaxPasses |-> IdlePass]]

\* The next iteration of the loop over workspaceFolders, or the end of the pass.
nextFolder(ps) ==
    IF ps.folder < Len(ps.wsf)
    THEN [ps EXCEPT !.pc = "detect", !.folder = @ + 1]
    ELSE [ps EXCEPT !.pc = "done"]

\* this.testController.items.replace([])
replacedByNothing(items) == {}

\* discoverAllTests is invoked: everything up to the first await.  Without
\* workspace folders it returns at once; else the items are replaced by
\* nothing and the loop over the folders begins.
DiscStart(p) ==
    /\ disc.pass[p].pc = "idle"
    /\ \A q \in 1..(p - 1) : disc.pass[q].pc # "idle"
    /\ disc' =
         IF Len(wsFolders) = 0
         THEN [disc EXCEPT !.pass[p].pc = "done"]
         ELSE [disc EXCEPT !.items = replacedByNothing(@),
                           !.pass[p] = [pc |-> "detect", wsf |-> wsFolders,
                                        folder |-> 1, found |-> {}]]
    /\ UNCHANGED <<profile, tree, execVars, reqId, found, rn, adp, con>>

\* adapterRegistry.detectFramework(workspaceFolder) settles in
\* discoverTestsInWorkspace: without an adapter the folder contributes nothing.
DiscDetect(p) ==
    /\ disc.pass[p].pc = "detect"
    /\ LET ps == disc.pass[p]
           f == ps.wsf[ps.folder]
       IN disc' = IF f \in disc.detects
                  THEN [disc EXCEPT !.pass[p].pc = "discover"]
                  ELSE [disc EXCEPT !.pass[p] = nextFolder(ps)]
    /\ UNCHANGED <<profile, tree, execVars, reqId, found, rn, adp, con>>

\* adapter.discoverTests settles: its suites are added to the controller one
\* after the other without an await in between; a rejection ends the pass.
DiscFiles(p) ==
    /\ disc.pass[p].pc = "discover"
    /\ LET ps == disc.pass[p]
           f == ps.wsf[ps.folder]
       IN \E ok \in BOOLEAN :
            disc' = IF ok
                    THEN [disc EXCEPT !.items = @ \cup disc.files[f],
                                      !.pass[p] =
                                          nextFolder([ps EXCEPT !.found =
                                                         @ \cup disc.files[f]])]
                    ELSE [disc EXCEPT !.pass[p].pc = "failed"]
    /\ UNCHANGED <<profile, tree, execVars, reqId, found, rn, adp, con>>

\* A test file is deleted from a project root (what the file watcher
\* reports with onDidDelete).
DiscFileDeleted ==
    /\ profile = "discover"
    /\ \E f \in 1..2 : \E file \in disc.files[f] :
         disc' = [disc EXCEPT !.files[f] = @ \ {file}]
    /\ UNCHANGED <<profile, tree, execVars, reqId, found, rn, adp, con>>

NextDiscover ==
    \/ DiscFileDeleted
    \/ \E p \in 1..MaxPasses : DiscStart(p)
    \/ \E p \in 1..MaxPasses : DiscDetect(p)
    \/ \E p \in 1..MaxPasses : DiscFiles(p)

SpecDiscover == InitDiscover /\ [][NextDiscover]_vars

\* ------------------------------------------------------------------------
\* JestAdapter.discoverTests and PhpunitAdapter.discoverTests
\* ------------------------------------------------------------------------

\* A block the scan of a file recognises: a describe or test class (suite)
\* or a test, with the index of the enclosing block (0: top level of the file).
PBlk(p, s) == [parent |-> p, suite |-> s]

\* A candidate file whose read fails.
Unreadable == [readable |-> FALSE, blocks |-> <<>>]

\* A candidate file whose read succeeds and whose scan finds the blocks.
Scanned(blocks) == [readable |-> TRUE, blocks |-> blocks]

\* What reading and scanning one candidate file can give for Jest: the read
\* fails, or the scan finds these blocks (none, a lone test, a describe with
\* two tests, nested describes next to a test, an empty describe).
JestContents ==
    { Unreadable, Scanned(<<>>),
      Scanned(<<PBlk(0, FALSE)>>),
      Scanned(<<PBlk(0, TRUE), PBlk(1, FALSE), PBlk(1, FALSE)>>),
      Scanned(<<PBlk(0, TRUE), PBlk(1, TRUE), PBlk(2, FALSE), PBlk(0, FALSE)>>),
      Scanned(<<PBlk(0, TRUE)>>) }

\* The same for PHPUnit, whose scan gives test classes and their methods.
PhpunitContents ==
    { Unreadable, Scanned(<<>>),
      Scanned(<<PBlk(0, TRUE), PBlk(1, FALSE), PBlk(1, FALSE)>>),
      Scanned(<<PBlk(0, TRUE), PBlk(0, TRUE), PBlk(2, FALSE)>>),
      Scanned(<<PBlk(0, TRUE)>>) }

CandidateLetters == <<"a", "b", "c", "d", "e", "f">>

\* The path of the i-th file the enumeration gives.
CandidatePath(i) == <<"/", "p", "/", CandidateLetters[i]>>

CandidateLists(contents) ==
    { [i \in 1..Len(cs) |-> [path |-> CandidatePath(i), content |-> cs[i]]] :
        cs \in SeqsUpTo(contents, MaxFiles) }

NoSuite == [id |-> <<>>, path |-> <<>>, blocks |-> <<>>]

\* parseTestFile: undefined when the scan finds no block, else the root suite
\* of the file with the converted blocks as its descendants.
parseTestFile(path, content) ==
    IF Len(content.blocks) = 0 THEN NoSuite
    ELSE [id |-> generateId(path), path |-> path, blocks |-> content.blocks]

\* countTests without the descent into nested suites.
RECURSIVE countTestsDirect(_, _, _)
countTestsDirect(blocks, p, i) ==
    IF i > Len(blocks) THEN 0
    ELSE (IF blocks[i].parent = p /\ ~blocks[i].suite THEN 1 ELSE 0)
         + countTestsDirect(blocks, p, i + 1)

\* countTests over the children of block p (0: the root suite), from the
\* i-th block on: a child with children of its own is counted by descent,
\* any other child is one test.
RECURSIVE countTests(_, _, _)
countTests(blocks, p, i) ==
    IF i > Len(blocks) THEN 0
    ELSE (IF blocks[i].parent = p
          THEN (IF blocks[i].suite THEN countTests(blocks, i, i + 1) ELSE 1)
          ELSE 0)
         + countTests(blocks, p, i + 1)

InitAdapter ==
    /\ profile = "adapter"
    /\ tree = createTestItem(BlocksMath)
    /\ wsFolders = <<1>>
    /\ shown = [n \in Nodes(tree) |-> "unset"]
    /\ clearResultsTimeout = 0
    /\ timers = {}
    /\ fired = {}
    /\ runs = [r \in 1..MaxRuns |-> IdleRun(tree)]
    /\ reqId = <<>>
    /\ found = NotCalled
    /\ rn = NoRunner
    /\ disc = NoDiscovery
    /\ \E kind \in {"jest", "phpunit"} :
         \E cands \in CandidateLists(IF kind = "jest" THEN JestContents
                                     ELSE PhpunitContents) :
            adp = [NoAdapterCall EXCEPT !.candidates = cands]
    /\ con = NoConsole

\* discoverTests is called: up to the await of findTestFiles.
AdpStart ==
    /\ adp.pc = "idle"
    /\ adp' = [adp EXCEPT !.pc = "find"]
    /\ UNCHANGED <<profile, tree, execVars, reqId, found, rn, disc, con>>

\* findTestFiles settles: with the candidate files in enumeration order, or
\* with the rejection of a findFiles call, which discoverTests passes on.
AdpFound ==
    /\ adp.pc = "find"
    /\ \E ok \in BOOLEAN :
         adp' = IF ~ok THEN [adp EXCEPT !.pc = "rejected"]
                ELSE [adp EXCEPT !.testFiles = adp.candidates,
                                 !.next = 1,
                                 !.pc = IF Len(adp.candidates) = 0
                                        THEN "resolved" ELSE "read"]
    /\ UNCHANGED <<profile, tree, execVars, reqId, found, rn, disc, con>>

\* One iteration of the loop over testFiles, once readFile has settled: a
\* failed read is caught and the file skipped; else the file is parsed and
\* its suite, if any, is pushed and counted.  After the last file the call
\* returns its result.
AdpRead ==
    /\ adp.pc = "read"
    /\ LET file == adp.testFiles[adp.next]
           suite == parseTestFile(file.path, file.content)
           more == adp.next < Len(adp.testFiles)
           after == [adp EXCEPT !.next = @ + 1,
                                !.pc = IF more THEN "read" ELSE "resolved"]
       IN adp' = IF ~file.content.readable \/ suite = NoSuite
                 THEN after
                 ELSE [after EXCEPT
                         !.suites = Append(@, suite),
                         !.testCount = @ + countTests(suite.blocks, 0, 1)]
    /\ UNCHANGED <<profile, tree, execVars, reqId, found, rn, disc, con>>

NextAdapter ==
    \/ AdpStart
    \/ AdpFound
    \/ AdpRead

SpecAdapter == InitAdapter /\ [][NextAdapter]_vars

\* ------------------------------------------------------------------------
\* PhpunitRunner.extractTestResults: statuses from console output
\* ------------------------------------------------------------------------

\* The glyphs of the patterns, each one character of the output: ballot X
\* and heavy ballot X for a failure, check mark and heavy check mark for a
\* success.
FailGlyphs == {"U+2717", "U+2718"}

PassGlyphs == {"U+2713", "U+2714"}

\* s.includes(sub)
Contains(s, sub) ==
    \E i \in 1..(Len(s) - Len(sub) + 1) : SubSeq(s, i, i + Len(sub) - 1) = sub

\* /a.*b/i matches within the line: a occurrence of a with an occurrence of b
\* after it, letter case ignored.
MatchesInOrder(line, a, b) ==
    LET l == toLowerCase(line)
        la == toLowerCase(a)
        lb == toLowerCase(b)
    IN \E i \in 1..(Len(l) - Len(la) - Len(lb) + 1) :
         /\ SubSeq(l, i, i + Len(la) - 1) = la
         /\ Contains(SubSeq(l, i + Len(la), Len(l)), lb)

OutputHasChar(output, chars) ==
    \E k \in 1..Len(output) : \E i \in 1..Len(output[k]) : output[k][i] \in chars

\* passPattern.test(output): a check mark anywhere in the output, or a line
\* with PASS before the name, or a line with the name before OK.
passPattern(output, testName) ==
    \/ OutputHasChar(output, PassGlyphs)
    \/ \E k \in 1..Len(output) :
         \/ MatchesInOrder(output[k], <<"P", "A", "S", "S">>, testName)
         \/ MatchesInOrder(output[k], testName, <<"O", "K">>)

\* failPattern.test(output): a ballot X anywhere in the output, or a line
\* with FAIL before the name, or a line with the name before FAIL.
failPattern(output, testName) ==
    \/ OutputHasChar(output, FailGlyphs)
    \/ \E k \in 1..Len(output) :
         \/ MatchesInOrder(output[k], <<"F", "A", "I", "L">>, testName)
         \/ MatchesInOrder(output[k], testName, <<"F", "A", "I", "L">>)

\* The last segment of the identifier.
testNameOf(testId) == Split(testId)[Len(Split(testId))]

\* The status extractTestResults gives one requested identifier.
consoleStatus(output, testId) ==
    LET testName == testNameOf(testId)
    IN IF failPattern(output, testName) THEN "failed"
       ELSE IF /\ ~passPattern(output, testName)
               /\ \E k \in 1..Len(output) :
                     Contains(output[k], <<"F", "A", "I", "L", "U", "R", "E", "S">>)
       THEN "failed"
       ELSE "passed"

extractTestResults(output, testIds) ==
    [i \in 1..Len(testIds) |->
        [testId |-> testIds[i], status |-> consoleStatus(output, testIds[i])]]

\* The two tests of a PHPUnit class that a run can request.
ConsoleIds ==
    << <<"_", "p", "_", "f">> \o Sep \o <<"S">> \o Sep \o <<"t", "X">>,
       <<"_", "p", "_", "f">> \o Sep \o <<"S">> \o Sep \o <<"t", "Y">> >>

FailMarkers == {<<g>> : g \in FailGlyphs} \cup {<<"F", "A", "I", "L">>}

PassMarkers ==
    {<<g>> : g \in PassGlyphs} \cup {<<"P", "A", "S", "S">>, <<"O", "K">>}

\* The lines PHPUnit can print: a marker before or after the name of a test,
\* the FAILURES! banner, a line that says nothing about any test.
ConsoleLines ==
    {m \o <<" ">> \o testNameOf(ConsoleIds[i]) :
        m \in FailMarkers \cup PassMarkers, i \in 1..2}
    \cup {testNameOf(ConsoleIds[i]) \o <<" ">> \o m :
        m \in FailMarkers \cup PassMarkers, i \in 1..2}
    \cup {<<"F", "A", "I", "L", "U", "R", "E", "S", "!">>, <<"T", "i", "m", "e">>}

InitConsole ==
    /\ profile = "console"
    /\ tree = createTestItem(BlocksMath)
    /\ wsFolders = <<1>>
    /\ shown = [n \in Nodes(tree) |-> "unset"]
    /\ clearResultsTimeout = 0
    /\ timers = {}
    /\ fired = {}
    /\ runs = [r \in 1..MaxRuns |-> IdleRun(tree)]
    /\ reqId = <<>>
    /\ found = NotCalled
    /\ rn = NoRunner
    /\ disc = NoDiscovery
    /\ adp = NoAdapterCall
    /\ \E output \in SeqsUpTo(ConsoleLines, MaxLines),
          testIds \in {SubSeq(ConsoleIds, 1, 1), ConsoleIds} :
         con = [NoConsole EXCEPT !.output = output, !.testIds = testIds]

\* parsePhpunitOutput calls extractTestResults on the combined output.
ConExtract ==
    /\ con.pc = "idle"
    /\ con' = [con EXCEPT !.pc = "done",
                          !.results = extractTestResults(con.output, con.testIds)]
    /\ UNCHANGED <<profile, tree, execVars, reqId, found, rn, disc, adp>>

NextConsole == ConExtract

SpecConsole == InitConsole /\ [][NextConsole]_vars

\* ------------------------------------------------------------------------
\* JestRunner.parseJestOutput: results from the JSON output
\* ------------------------------------------------------------------------

\* The status strings Jest writes for an assertion; the type of the runner
\* names the first four.
JestStatuses == {"passed", "failed", "pending", "skipped", "todo", "disabled"}

buildTestId(filePath, ancestorTitles, title) ==
    Join(<<generateId(filePath)>> \o ancestorTitles \o <<title>>, Sep)

mapJestStatus(status) ==
    CASE status = "passed" -> "passed"
      [] status = "failed" -> "failed"
      [] status \in {"pending", "skipped"} -> "skipped"
      [] OTHER -> "pending"

\* The assertion results of the one suite result of the JSON output.
JestAssertions ==
    {[ancestorTitles |-> <<<<"S">>>>, title |-> t, status |-> st] :
        t \in {<<"a">>, <<"b">>}, st \in JestStatuses}

\* The results parseJestOutput builds from the assertion results of the
\* suite result named suiteName.
jestResults(suiteName, assertionResults) ==
    [i \in 1..Len(assertionResults) |->
        [testId |-> buildTestId(suiteName, assertionResults[i].ancestorTitles,
                                assertionResults[i].title),
         status |-> mapJestStatus(assertionResults[i].status)]]

InitJson ==
    /\ profile = "json"
    /\ tree = createTestItem(BlocksMath)
    /\ wsFolders = <<1>>
    /\ shown = [n \in Nodes(tree) |-> "unset"]
    /\ clearResultsTimeout = 0
    /\ timers = {}
    /\ fired = {}
    /\ runs = [r \in 1..MaxRuns |-> IdleRun(tree)]
    /\ reqId = <<>>
    /\ found = NotCalled
    /\ rn = NoRunner
    /\ disc = NoDiscovery
    /\ adp = NoAdapterCall
    /\ \E output \in SeqsUpTo(JestAssertions, MaxAssertions) :
         con = [NoConsole EXCEPT !.output = output]

\* The close handler calls parseJestOutput on a stdout that holds the JSON.
JsonParse ==
    /\ con.pc = "idle"
    /\ con' = [con EXCEPT !.pc = "done",
                          !.results = jestResults(<<"/", "p", "/", "f">>, con.output)]
    /\ UNCHANGED <<profile, tree, execVars, reqId, found, rn, disc, adp>>

NextJson == JsonParse

SpecJson == InitJson /\ [][NextJson]_vars

\* ------------------------------------------------------------------------
\* PhpunitRunner.parseJunitXml
\* ------------------------------------------------------------------------

\* A testcase element is given by its name and file attributes, the last
\* part of its class attribute and whether its body holds a failure.

\* testIds.find(id => id.includes(name) && (id.includes(fileId) ||
\* (className && id.includes(className)))) || the fallback identifier
matchedId(testIds, case) ==
    LET fileId == generateId(case.file)
        hits == {k \in 1..Len(testIds) :
                   /\ Contains(testIds[k], case.name)
                   /\ \/ Contains(testIds[k], fileId)
                      \/ (case.className # <<>> /\ Contains(testIds[k], case.className))}
    IN IF hits # {} THEN testIds[SetMin(hits)]
       ELSE fileId \o Sep \o case.className \o Sep \o case.name

\* The records parseJunitXml pushes, one per testcase element.
junitResults(cases, testIds) ==
    [i \in 1..Len(cases) |->
        [testId |-> matchedId(testIds, cases[i]),
         status |-> IF cases[i].failure THEN "failed" ELSE "passed"]]

\* The identifiers of the methods t, tx and u of class S in /p/f.
JunitIds ==
    {<<"_", "p", "_", "f">> \o Sep \o <<"S">> \o Sep \o m :
        m \in {<<"t">>, <<"t", "x">>, <<"u">>}}

JunitCases ==
    [name : {<<"t">>, <<"t", "x">>, <<"u">>},
     file : {<<"/", "p", "/", "f">>, <<"/", "p", "/", "g">>},
     className : {<<"S">>}, failure : BOOLEAN]

InitJunit ==
    /\ profile = "junit"
    /\ tree = createTestItem(BlocksMath)
    /\ wsFolders = <<1>>
    /\ shown = [n \in Nodes(tree) |-> "unset"]
    /\ clearResultsTimeout = 0
    /\ timers = {}
    /\ fired = {}
    /\ runs = [r \in 1..MaxRuns |-> IdleRun(tree)]
    /\ reqId = <<>>
    /\ found = NotCalled
    /\ rn = NoRunner
    /\ disc = NoDiscovery
    /\ adp = NoAdapterCall
    /\ \E testIds \in DistinctSeqsUpTo(JunitIds, MaxIds),
          output \in SeqsUpTo(JunitCases, MaxCases) :
         con = [NoConsole EXCEPT !.output = output, !.testIds = testIds]

\* The close handler calls parseJunitXml on the report it has read.
JunitParse ==
    /\ con.pc = "idle"
    /\ con' = [con EXCEPT !.pc = "done",
                          !.results = junitResults(con.output, con.testIds)]
    /\ UNCHANGED <<profile, tree, execVars, reqId, found, rn, disc, adp>>

NextJunit == JunitParse

SpecJunit == InitJunit /\ [][NextJunit]_vars

\* ------------------------------------------------------------------------
\* JestParser.parseBlocks
\* ------------------------------------------------------------------------

\* A source line is given by what the parser can see in it:
\*   "describe"    describe('S', () => {
\*   "test"        it('a', () => expect(1).toBe(1));
\*   "testBraces"  it('a', () => { expect(1).toBe(1); });
\*   "testOpen"    it('a', () => {
\*   "close"       });
\* and the name between the quotes.

\* matchDescribe(line) finds a describe call.
matchDescribe(line) == line.kind = "describe"

\* matchTest(line) finds a test or it call.
matchTest(line) == line.kind \in {"test", "testBraces", "testOpen"}

\* (line.match(/\}\s*\)/g) ?? []).length
closingBraces(line) == IF line.kind \in {"testBraces", "close"} THEN 1 ELSE 0

\* The parent addBlockToHierarchy gives a block: the block on top of the
\* stack, 0 (the list blocks) when the stack is empty.
addBlockToHierarchy(stack) == IF Len(stack) > 0 THEN stack[Len(stack)] ELSE 0

\* The loop of parseBlocks from line k on.  A block is kept with its type,
\* name, line and the index of the block it was added to; the stack holds
\* indices of blocks.
RECURSIVE parseLoop(_, _, _, _)
parseLoop(lines, k, blocks, stack) ==
    IF k > Len(lines) THEN blocks
    ELSE LET line == lines[k]
             b1 == IF matchDescribe(line)
                   THEN Append(blocks, [type |-> "describe", name |-> line.name,
                                        line |-> k,
                                        parent |-> addBlockToHierarchy(stack)])
                   ELSE blocks
             s1 == IF matchDescribe(line) THEN Append(stack, Len(b1)) ELSE stack
             b2 == IF matchTest(line)
                   THEN Append(b1, [type |-> "test", name |-> line.name,
                                    line |-> k,
                                    parent |-> addBlockToHierarchy(s1)])
                   ELSE b1
             pops == IF closingBraces(line) < Len(s1) THEN closingBraces(line)
                     ELSE Len(s1)
         IN parseLoop(lines, k + 1, b2, SubSeq(s1, 1, Len(s1) - pops))

parseBlocks(lines) == parseLoop(lines, 1, <<>>, <<>>)

SourceLines ==
    {[kind |-> "describe", name |-> <<"S">>], [kind |-> "close", name |-> <<>>],
     [kind |-> "testBraces", name |-> <<"a">>]}
    \cup [kind : {"test", "testOpen"}, name : {<<"a">>, <<"b">>}]

\* After line k the body of a test that spans several lines is open.
RECURSIVE InBody(_, _)
InBody(lines, k) ==
    IF k = 0 THEN FALSE
    ELSE IF InBody(lines, k - 1) THEN lines[k].kind # "close"
    ELSE lines[k].kind = "testOpen"

\* The lines of the describe calls that are open after line k, outermost
\* first: a '});' closes the body of the open test if there is one, and the
\* innermost describe otherwise.
RECURSIVE OpenDescribes(_, _)
OpenDescribes(lines, k) ==
    IF k = 0 THEN <<>>
    ELSE LET open == OpenDescribes(lines, k - 1)
         IN IF InBody(lines, k - 1) THEN open
            ELSE IF lines[k].kind = "describe" THEN Append(open, k)
            ELSE IF lines[k].kind = "close" /\ Len(open) > 0
            THEN SubSeq(open, 1, Len(open) - 1)
            ELSE open

\* The lines are those of a file that can be run: inside the body of a test
\* only its end is written down, and a '});' closes something.
WellFormed(lines) ==
    \A k \in 1..Len(lines) :
        /\ InBody(lines, k - 1) => lines[k].kind = "close"
        /\ (~InBody(lines, k - 1) /\ lines[k].kind = "close")
              => Len(OpenDescribes(lines, k - 1)) > 0

InitParse ==
    /\ profile = "parse"
    /\ tree = createTestItem(BlocksMath)
    /\ wsFolders = <<1>>
    /\ shown = [n \in Nodes(tree) |-> "unset"]
    /\ clearResultsTimeout = 0
    /\ timers = {}
    /\ fired = {}
    /\ runs = [r \in 1..MaxRuns |-> IdleRun(tree)]
    /\ reqId = <<>>
    /\ found = NotCalled
    /\ rn = NoRunner
    /\ disc = NoDiscovery
    /\ adp = NoAdapterCall
    /\ \E lines \in {l \in SeqsUpTo(SourceLines, MaxSource) : WellFormed(l)} :
         con = [NoConsole EXCEPT !.output = lines]

\* parseTestFile calls parseBlocks on the lines of the file.
ParseFile ==
    /\ con.pc = "idle"
    /\ con' = [con EXCEPT !.pc = "done", !.results = parseBlocks(con.output)]
    /\ UNCHANGED <<profile, tree, execVars, reqId, found, rn, disc, adp>>

NextParse == ParseFile

SpecParse == InitParse /\ [][NextParse]_vars

\* ------------------------------------------------------------------------
\* JestRunner.buildTestPatterns and buildJestArgs: the command line
\* ------------------------------------------------------------------------

\* pattern.replace(/[.*+?^${}()|[\]\\]/g, '\\$&')
RECURSIVE escapeRegexPattern(_)
escapeRegexPattern(pattern) ==
    IF Len(pattern) = 0 THEN <<>>
    ELSE (IF Head(pattern) \in {".", "*", "+", "?", "^", "$", "{", "}", "(", ")",
                                "|", "[", "]", "\\"}
          THEN <<"\\", Head(pattern)>> ELSE <<Head(pattern)>>)
         \o escapeRegexPattern(Tail(pattern))

\* buildTestPatterns without the filter of the empty patterns.
buildTestPatternsUnfiltered(testIds) ==
    [i \in 1..Len(testIds) |->
        LET parts == Split(testIds[i])
        IN IF Len(parts) > 1 THEN escapeRegexPattern(Join(Tail(parts), <<" ">>))
           ELSE <<>>]

buildTestPatterns(testIds) ==
    SelectSeq([i \in 1..Len(testIds) |->
                  LET parts == Split(testIds[i])
                  IN IF Len(parts) > 1
                     THEN escapeRegexPattern(Join(Tail(parts), <<" ">>))
                     ELSE <<>>],
              LAMBDA pattern : Len(pattern) > 0)

\* The arguments of the Jest process, each a string.
buildJestArgs(testPatterns) ==
    << <<"--json">>, <<"--testLocationInResults">> >>
    \o (IF Len(testPatterns) > 0
        THEN << <<"--testNamePattern">>,
                <<"\"">> \o Join(testPatterns, <<"|">>) \o <<"\"">> >>
        ELSE <<>>)

\* Identifiers a run can hand to the runner: a file, a suite, tests, a test
\* whose name has regex metacharacters, a file-level test of another file.
JestArgIds ==
    LET f == <<"_", "p", "_", "f">>
    IN { f, f \o Sep \o <<"S">>, f \o Sep \o <<"S">> \o Sep \o <<"a">>,
         f \o Sep \o <<"S">> \o Sep \o <<"a", ".", "b", "|">>,
         <<"_", "p", "_", "g">>, <<"_", "p", "_", "g">> \o Sep \o <<"b">> }

InitArgs ==
    /\ profile = "args"
    /\ tree = createTestItem(BlocksMath)
    /\ wsFolders = <<1>>
    /\ shown = [n \in Nodes(tree) |-> "unset"]
    /\ clearResultsTimeout = 0
    /\ timers = {}
    /\ fired = {}
    /\ runs = [r \in 1..MaxRuns |-> IdleRun(tree)]
    /\ reqId = <<>>
    /\ found = NotCalled
    /\ rn = NoRunner
    /\ disc = NoDiscovery
    /\ adp = NoAdapterCall
    /\ \E testIds \in SeqsUpTo(JestArgIds, MaxIds) :
         con = [NoConsole EXCEPT !.testIds = testIds]

\* runTests builds the arguments of the process it spawns.
ArgsBuild ==
    /\ con.pc = "idle"
    /\ con' = [con EXCEPT !.pc = "done",
                          !.results = buildJestArgs(buildTestPatterns(con.testIds))]
    /\ UNCHANGED <<profile, tree, execVars, reqId, found, rn, disc, adp>>

NextArgs == ArgsBuild

SpecArgs == InitArgs /\ [][NextArgs]_vars

\* ------------------------------------------------------------------------
\* JestParser.convertBlocksToSuites and PhpunitParser.convertClassesToSuites
\* ------------------------------------------------------------------------

\* The nodes parseTestFile returns for the blocks of a file (block 1 is the
\* file itself): node i has the identifier and the parentId the conversion
\* gives it (<<>>: undefined), and sits in the children of node container.
convertBlocksToSuites(blocks) ==
    [i \in 1..Len(blocks) |->
        [id |-> NodeId(blocks, i),
         parentId |-> IF blocks[i].parent = 0 THEN <<>>
                      ELSE NodeId(blocks, blocks[i].parent),
         name |-> blocks[i].name,
         container |-> blocks[i].parent]]

\* Block i or one of the blocks that enclose it.
RECURSIVE Encloses(_, _, _)
Encloses(blocks, p, i) ==
    IF i = 0 THEN FALSE
    ELSE p = i \/ Encloses(blocks, p, blocks[i].parent)

\* The names a describe or a test can carry in the file.
BlockNames == {<<"a">>, <<"b">>, <<"a", ":", ":", "b">>, <<"a", ":">>}

\* The lists of m blocks below the file /p/f that the scan can give: each block
\* lies in the file, directly or in a block that is still open when it is met.
RECURSIVE BlockListsOf(_)
BlockListsOf(m) ==
    IF m = 0 THEN {<<Blk(0, <<"/", "p", "/", "f">>)>>}
    ELSE UNION {{Append(bl, Blk(p, n)) :
                    p \in {q \in 1..Len(bl) : Encloses(bl, q, Len(bl))},
                    n \in BlockNames} :
                bl \in BlockListsOf(m - 1)}

\* The block lists the scan of the file /p/f can give.
BlockLists == UNION {BlockListsOf(m) : m \in 0..MaxBlocks}

InitIds ==
    /\ profile = "ids"
    /\ tree = createTestItem(BlocksMath)
    /\ wsFolders = <<1>>
    /\ shown = [n \in Nodes(tree) |-> "unset"]
    /\ clearResultsTimeout = 0
    /\ timers = {}
    /\ fired = {}
    /\ runs = [r \in 1..MaxRuns |-> IdleRun(tree)]
    /\ reqId = <<>>
    /\ found = NotCalled
    /\ rn = NoRunner
    /\ disc = NoDiscovery
    /\ adp = NoAdapterCall
    /\ \E bl \in BlockLists : con = [NoConsole EXCEPT !.output = bl]

\* parseTestFile converts the blocks it found.
IdsConvert ==
    /\ con.pc = "idle"
    /\ con' = [con EXCEPT !.pc = "done",
                          !.results = convertBlocksToSuites(con.output)]
    /\ UNCHANGED <<profile, tree, execVars, reqId, found, rn, disc, adp>>

NextIds == IdsConvert

SpecIds == InitIds /\ [][NextIds]_vars

\* ------------------------------------------------------------------------
\* AdapterRegistry
\* ------------------------------------------------------------------------

\* The registry is the Map adapters, as the sequence of its entries in
\* iteration order.  An adapter is known by the serial number of the
\* registerAdapter call that passed it, its framework and what its
\* detectFramework answers.

\* registerAdapter that adds an entry whatever the Map holds.
registerAdapterAppend(adapters, adapter) == Append(adapters, adapter)

\* this.adapters.set(adapter.framework, adapter): the value of an existing
\* key is replaced where the key is, a new key is added at the end.
registerAdapter(adapters, adapter) ==
    IF \E i \in 1..Len(adapters) : adapters[i].framework = adapter.framework
    THEN [i \in 1..Len(adapters) |->
            IF adapters[i].framework = adapter.framework THEN adapter
            ELSE adapters[i]]
    ELSE Append(adapters, adapter)

NoAdapter == [framework |-> "none", serial |-> 0, detects |-> FALSE]

\* this.adapters.get(framework)
getAdapter(adapters, framework) ==
    IF \E i \in 1..Len(adapters) : adapters[i].framework = framework
    THEN adapters[CHOOSE i \in 1..Len(adapters) : adapters[i].framework = framework]
    ELSE NoAdapter

\* Array.from(this.adapters.values())
getAllAdapters(adapters) == adapters

InitRegistry ==
    /\ profile = "registry"
    /\ tree = createTestItem(BlocksMath)
    /\ wsFolders = <<1>>
    /\ shown = [n \in Nodes(tree) |-> "unset"]
    /\ clearResultsTimeout = 0
    /\ timers = {}
    /\ fired = {}
    /\ runs = [r \in 1..MaxRuns |-> IdleRun(tree)]
    /\ reqId = <<>>
    /\ found = NotCalled
    /\ rn = NoRunner
    /\ disc = NoDiscovery
    /\ con = NoConsole
    /\ adp = [pc |-> "idle", adapters |-> <<>>, registered |-> <<>>,
              got |-> <<>>, next |-> 0, probed |-> <<>>, result |-> NoAdapter]

\* registerAdapter(adapter) is called (before any detection is under way).
RegRegister ==
    /\ adp.pc = "idle"
    /\ Len(adp.registered) < MaxRegs
    /\ \E fw \in {"jest", "phpunit"}, d \in BOOLEAN :
         LET adapter == [framework |-> fw, serial |-> Len(adp.registered) + 1,
                         detects |-> d]
         IN adp' = [adp EXCEPT !.adapters = registerAdapter(@, adapter),
                               !.registered = Append(@, adapter)]
    /\ UNCHANGED <<profile, tree, execVars, reqId, found, rn, disc, con>>

\* getAdapter(framework) or getAllAdapters() is called.
RegGet ==
    /\ adp.pc = "idle"
    /\ \E fw \in {"jest", "phpunit", "all"} :
         adp' = [adp EXCEPT !.got = IF fw = "all" THEN getAllAdapters(adp.adapters)
                                   ELSE <<getAdapter(adp.adapters, fw)>>]
    /\ UNCHANGED <<profile, tree, execVars, reqId, found, rn, disc, con>>

\* detectFramework(workspaceFolder) is called: the loop over the values of
\* the Map begins, up to the first await.
RegDetect ==
    /\ adp.pc = "idle"
    /\ adp' = IF Len(adp.adapters) = 0 THEN [adp EXCEPT !.pc = "done"]
              ELSE [adp EXCEPT !.pc = "probing", !.next = 1]
    /\ UNCHANGED <<profile, tree, execVars, reqId, found, rn, disc, con>>

\* adapter.detectFramework of the adapter at hand settles.
RegProbe ==
    /\ adp.pc = "probing"
    /\ LET adapter == adp.adapters[adp.next]
           seen == [adp EXCEPT !.probed = Append(@, adapter)]
       IN adp' = IF adapter.detects
                 THEN [seen EXCEPT !.pc = "done", !.result = adapter]
                 ELSE IF adp.next < Len(adp.adapters)
                 THEN [seen EXCEPT !.next = @ + 1]
                 ELSE [seen EXCEPT !.pc = "done"]
    /\ UNCHANGED <<profile, tree, execVars, reqId, found, rn, disc, con>>

NextRegistry ==
    \/ RegRegister
    \/ RegGet
    \/ RegDetect
    \/ RegProbe

SpecRegistry == InitRegistry /\ [][NextRegistry]_vars

\* ------------------------------------------------------------------------
\* JestAdapter.detectFramework and PhpunitAdapter.detectFramework
\* ------------------------------------------------------------------------

JEST_CONFIG_FILES ==
    <<"jest.config.js", "jest.config.ts", "jest.config.mjs", "jest.config.cjs",
      "jest.config.json">>

PHPUNIT_CONFIG_FILES == <<"phpunit.xml", "phpunit.xml.dist">>

\* What the workspace folder holds for a manifest (package.json or
\* composer.json): no file, a file readFile fails on, text JSON.parse
\* rejects, the JSON text null, an object that does not name the framework,
\* an object that names it among the dependencies or the development
\* dependencies.
ManifestStates ==
    {"missing", "unreadable", "malformed", "null", "plain", "dependency",
     "devDependency"}

\* What fs.stat meets for a file: it is there, it is not, or the call fails
\* for another reason.  stat rejects in the last two cases.
FileStates == {"exists", "absent", "ioError"}

\* The statements of the try block of JestAdapter.detectFramework: readFile
\* rejects, JSON.parse throws, and a property of null cannot be read.
detectFrameworkJestUncaught(manifest, configs) ==
    IF manifest \in {"missing", "unreadable", "malformed", "null"} THEN "throw"
    ELSE IF manifest \in {"dependency", "devDependency"} THEN "true"
    ELSE IF \E i \in 1..Len(configs) : configs[i] = "exists" THEN "true"
    ELSE "false"

\* JestAdapter.detectFramework: the try block, and false from its catch.
detectFrameworkJest(manifest, configs) ==
    IF detectFrameworkJestUncaught(manifest, configs) = "throw" THEN "false"
    ELSE detectFrameworkJestUncaught(manifest, configs)

\* PhpunitAdapter.detectFramework: the configuration files, then
\* composer.json, then artisan, each in a try block of its own.
detectFrameworkPhpunit(manifest, configs, artisan) ==
    IF \E i \in 1..Len(configs) : configs[i] = "exists" THEN "true"
    ELSE IF manifest \in {"dependency", "devDependency"} THEN "true"
    ELSE IF artisan = "exists" THEN "true"
    ELSE "false"

InitDetect ==
    /\ profile = "detect"
    /\ tree = createTestItem(BlocksMath)
    /\ wsFolders = <<1>>
    /\ shown = [n \in Nodes(tree) |-> "unset"]
    /\ clearResultsTimeout = 0
    /\ timers = {}
    /\ fired = {}
    /\ runs = [r \in 1..MaxRuns |-> IdleRun(tree)]
    /\ reqId = <<>>
    /\ found = NotCalled
    /\ rn = NoRunner
    /\ disc = NoDiscovery
    /\ con = NoConsole
    /\ \E fw \in {"jest", "phpunit"}, manifest \in ManifestStates :
         \E configs \in [1..Len(IF fw = "jest" THEN JEST_CONFIG_FILES
                                ELSE PHPUNIT_CONFIG_FILES) -> FileStates],
            artisan \in IF fw = "jest" THEN {"absent"} ELSE FileStates :
           adp = [pc |-> "idle", framework |-> fw, manifest |-> manifest,
                  configs |-> configs, artisan |-> artisan, result |-> "none"]

\* detectFramework of the Jest adapter is called on the folder and settles.
DetJest ==
    /\ adp.pc = "idle"
    /\ adp.framework = "jest"
    /\ adp' = [adp EXCEPT !.pc = "done",
                          !.result = detectFrameworkJest(adp.manifest, adp.configs)]
    /\ UNCHANGED <<profile, tree, execVars, reqId, found, rn, disc, con>>

\* detectFramework of the PHPUnit adapter is called on the folder and
\* settles.
DetPhpunit ==
    /\ adp.pc = "idle"
    /\ adp.framework = "phpunit"
    /\ adp' = [adp EXCEPT !.pc = "done",
                          !.result = detectFrameworkPhpunit(adp.manifest,
                                                           adp.configs, adp.artisan)]
    /\ UNCHANGED <<profile, tree, execVars, reqId, found, rn, disc, con>>

NextDetect ==
    \/ DetJest
    \/ DetPhpunit

SpecDetect == InitDetect /\ [][NextDetect]_vars

\* ------------------------------------------------------------------------
\* findTestItem on its own
\* ------------------------------------------------------------------------

\* Identifiers looked up: those of the nodes, their case variants, a test the
\* node does not have, a file the tree does not have.
LookupIds(t) ==
    UNION {{t[n].id, toUpperCase(t[n].id), toLowerCase(t[n].id),
            t[n].id \o Sep \o <<"z">>} : n \in Nodes(t)}
    \cup {<<"_", "p", "_", "z">> \o Sep \o <<"S">> \o Sep \o <<"a">>}

InitFind ==
    /\ profile = "find"
    /\ tree \in Trees
    /\ wsFolders = <<>>
    /\ shown = [n \in Nodes(tree) |-> "unset"]
    /\ clearResultsTimeout = 0
    /\ timers = {}
    /\ fired = {}
    /\ runs = [r \in 1..MaxRuns |-> IdleRun(tree)]
    /\ reqId \in LookupIds(tree)
    /\ found = NotCalled
    /\ rn = NoRunner
    /\ disc = NoDiscovery
    /\ adp = NoAdapterCall
    /\ con = NoConsole

\* findTestItem(reqId) is called.
Lookup ==
    /\ found = NotCalled
    /\ found' = findTestItem(tree, reqId)
    /\ UNCHANGED <<profile, tree, execVars, reqId, rn, disc, adp, con>>

\* The next result identifier arrives.
NextLookup ==
    /\ found # NotCalled
    /\ \E i \in LookupIds(tree) \ {reqId} : reqId' = i
    /\ found' = NotCalled
    /\ UNCHANGED <<profile, tree, execVars, rn, disc, adp, con>>

NextFind == Lookup \/ NextLookup

SpecFind == InitFind /\ [][NextFind]_vars

\* ------------------------------------------------------------------------
\* JestRunner.runTests and PhpunitRunner.runTests: one call, one child process
\* ------------------------------------------------------------------------

\* The identifier the call is asked to run.
RequestedId == <<"_", "p", "_", "f">> \o Sep \o <<"S">> \o Sep \o <<"a">>

OnePassed ==
    [passed |-> 1, failed |-> 0, skipped |-> 0,
     results |-> <<[testId |-> RequestedId, status |-> "passed"]>>]

\* parseJestOutput: the JSON object found in stdout, else the empty result.
parseJestOutput(stdout) ==
    IF stdout = "json" THEN OnePassed ELSE EmptyResult

\* parsePhpunitOutput: counters from the labelled numbers of the summary, one
\* record per requested identifier from extractTestResults (Passed unless a
\* fail marker or FAILURES is found).
parsePhpunitOutput(stdout) ==
    [passed |-> IF stdout = "summary" THEN 1 ELSE 0, failed |-> 0, skipped |-> 0,
     results |-> <<[testId |-> RequestedId, status |-> "passed"]>>]

\* parseJunitXml: one record per testcase element of the report.
parseJunitXml(report) ==
    IF report = "junit" THEN OnePassed ELSE EmptyResult

\* resolve(v): settles the promise unless it is settled already.
resolve(r, v) ==
    IF r.settled THEN r ELSE [r EXCEPT !.settled = TRUE, !.value = v]

\* cleanupTempFile: unlink the report if it exists.
cleanupTempFile(r) == [r EXCEPT !.report = "none"]

\* cancelHandler.dispose(): the listener is removed; a callback still queued
\* for it is dropped.
dispose(r) == [r EXCEPT !.listener = "disposed", !.replayPending = FALSE]

\* The body of the onCancellationRequested listener.
cancelListener(r) ==
    LET k == [r EXCEPT !.kills = 1, !.cancelHandled = TRUE]
    IN IF r.kind = "phpunit" THEN resolve(cleanupTempFile(k), EmptyResult)
       ELSE resolve(k, EmptyResult)

\* The check of token.isCancellationRequested after the listener is registered:
\* PhpunitRunner makes it, JestRunner does not.
checksTokenAfterSpawn(kind) == kind = "phpunit"

InitRunner ==
    /\ profile = "runner"
    /\ tree = createTestItem(BlocksMath)
    /\ wsFolders = <<1>>
    /\ shown = [n \in Nodes(tree) |-> "unset"]
    /\ clearResultsTimeout = 0
    /\ timers = {}
    /\ fired = {}
    /\ runs = [r \in 1..MaxRuns |-> IdleRun(tree)]
    /\ reqId = <<>>
    /\ found = NotCalled
    /\ \E kind \in {"jest", "phpunit"}, replays \in BOOLEAN :
         rn = [NoRunner EXCEPT !.kind = kind, !.replays = replays, !.pc = "lookup"]
    /\ disc = NoDiscovery
    /\ adp = NoAdapterCall
    /\ con = NoConsole

\* The host requests cancellation: the token is marked and the registered
\* listeners run.
RnCancel ==
    /\ rn.pc \in {"lookup", "spawned"}
    /\ ~rn.cancelRequested
    /\ LET c == [rn EXCEPT !.cancelRequested = TRUE,
                           !.first = IF @ = "none" THEN "cancel" ELSE @,
                           !.cancelBeforeOutput =
                               rn.stdout = "none" /\ ~rn.closed /\ ~rn.errored]
       IN rn' = IF rn.listener = "registered" THEN cancelListener(c) ELSE c
    /\ UNCHANGED <<profile, tree, execVars, reqId, found, disc, adp, con>>

\* The executable lookup settles: the process is spawned and the listeners are
\* registered.
RnSpawn ==
    /\ rn.pc = "lookup"
    /\ LET s == [rn EXCEPT !.pc = "spawned", !.listener = "registered",
                           !.replayPending = rn.cancelRequested /\ rn.replays]
       IN rn' = IF checksTokenAfterSpawn(rn.kind) /\ rn.cancelRequested
                THEN resolve(cleanupTempFile(dispose([s EXCEPT !.kills = 1])),
                             EmptyResult)
                ELSE [s EXCEPT !.handlers = TRUE]
    /\ UNCHANGED <<profile, tree, execVars, reqId, found, disc, adp, con>>

\* A token that was cancelled before the listener was registered calls the
\* listener back from a zero-delay timer, which runs before the child process
\* spawned in the same turn can report anything.
RnReplay ==
    /\ rn.replayPending
    /\ rn.listener = "registered"
    /\ rn' = cancelListener([rn EXCEPT !.replayPending = FALSE])
    /\ UNCHANGED <<profile, tree, execVars, reqId, found, disc, adp, con>>

\* The child process writes to stdout (a process that emitted 'error' was
\* not started and writes nothing).
RnStdout ==
    /\ rn.pc = "spawned"
    /\ ~rn.replayPending
    /\ ~rn.closed
    /\ ~rn.errored
    /\ rn.stdout = "none"
    /\ \E out \in (IF rn.kind = "jest" THEN {"json", "text"} ELSE {"summary", "text"}) :
         rn' = [rn EXCEPT !.stdout = out]
    /\ UNCHANGED <<profile, tree, execVars, reqId, found, disc, adp, con>>

\* The PHPUnit process writes its JUnit report.
RnReport ==
    /\ rn.pc = "spawned"
    /\ ~rn.replayPending
    /\ rn.kind = "phpunit"
    /\ ~rn.closed
    /\ ~rn.errored
    /\ rn.report = "none"
    /\ \E rep \in {"junit", "text"} : rn' = [rn EXCEPT !.report = rep]
    /\ UNCHANGED <<profile, tree, execVars, reqId, found, disc, adp, con>>

\* The child process emits 'close'.
RnClose ==
    /\ rn.pc = "spawned"
    /\ ~rn.replayPending
    /\ ~rn.closed
    /\ LET c == [rn EXCEPT !.closed = TRUE,
                           !.first = IF @ = "none" THEN "close" ELSE @]
           d == dispose(c)
       IN rn' = IF ~rn.handlers THEN c
                ELSE IF rn.kind = "jest"
                THEN [resolve(d, parseJestOutput(rn.stdout)) EXCEPT !.closeHandler = "done"]
                ELSE IF rn.report # "none"
                THEN [d EXCEPT !.closeHandler = "reading"]
                ELSE [resolve(d, parsePhpunitOutput(rn.stdout)) EXCEPT !.closeHandler = "done"]
    /\ UNCHANGED <<profile, tree, execVars, reqId, found, disc, adp, con>>

\* fs.promises.readFile(tempXmlFile) settles in the close handler of PhpunitRunner.
RnReadSettles ==
    /\ rn.closeHandler = "reading"
    /\ \E ok \in BOOLEAN :
         rn' = IF ok
               THEN [resolve(cleanupTempFile(rn), parseJunitXml(rn.report))
                        EXCEPT !.closeHandler = "done"]
               ELSE \* the rejection leaves the handler; nothing catches it
                    [rn EXCEPT !.closeHandler = "rejected"]
    /\ UNCHANGED <<profile, tree, execVars, reqId, found, disc, adp, con>>

\* The child process emits 'error'.
RnError ==
    /\ rn.pc = "spawned"
    /\ ~rn.replayPending
    /\ ~rn.errored
    /\ ~rn.closed
    /\ LET e == [rn EXCEPT !.errored = TRUE,
                           !.first = IF @ = "none" THEN "error" ELSE @]
       IN rn' = IF ~rn.handlers THEN e
                ELSE LET d == [dispose(e) EXCEPT !.errorHandled = TRUE]
                     IN IF rn.kind = "phpunit"
                        THEN resolve(cleanupTempFile(d), EmptyResult)
                        ELSE resolve(d, EmptyResult)
    /\ UNCHANGED <<profile, tree, execVars, reqId, found, disc, adp, con>>

NextRunner ==
    \/ RnCancel
    \/ RnSpawn
    \/ RnReplay
    \/ RnStdout
    \/ RnReport
    \/ RnClose
    \/ RnReadSettles
    \/ RnError

SpecRunner == InitRunner /\ [][NextRunner]_vars

\* ------------------------------------------------------------------------
\* Claims
\* ------------------------------------------------------------------------

Run == 1..MaxRuns

\* The nodes on which run r called run.passed.
MarkedPassed(r) == {n \in Nodes(tree) : <<n, "passed">> \in runs[r].reported}

\* A step in which runTests is invoked.
RunStarts == \E r \in Run : runs[r].pc = "idle" /\ runs'[r].pc # "idle"

\* C1: for both runners, a cancellation requested after runTests was invoked
\* and before the child process produced output or closed (also one requested
\* before the process is spawned) makes the runner call kill() and resolve
\* with the empty result, without waiting for the process to close.
C1_CancelKillsAndResolvesEmpty ==
    (/\ rn.pc = "spawned"
     /\ rn.cancelRequested
     /\ rn.cancelBeforeOutput
     /\ ~rn.replayPending)
    => (rn.kills > 0 /\ rn.settled /\ rn.value = EmptyResult)

\* C2: once a handler of the call (close, error or cancellation) has run to
\* its end, the promise of runTests is settled: the call does not stay
\* pending, whatever the outcome of parsing and of reading the report file.
C2_HandlersSettleThePromise ==
    (rn.closeHandler \in {"done", "rejected"} \/ rn.errorHandled \/ rn.cancelHandled)
    => rn.settled

\* C3: outside the error path, every node on which a run reports a status is
\* named (ignoring case) by one of the results the adapters returned; a result
\* that names no node changes no status, not that of an ancestor suite either.
C3_UnmatchedResultChangesNothing ==
    \A r \in Run :
        ~runs[r].errored =>
            \A pr \in runs[r].reported : pr[1] \in runs[r].named

\* C4: for every tree built by discovery, findTestItem returns the leaf whose
\* identifier equals the result identifier up to letter case.
C4_AnyTreeCaseVariantResolvesToLeaf ==
    found # NotCalled =>
        \A x \in Leaves(tree) :
            toLowerCase(reqId) = toLowerCase(tree[x].id) => found = x

\* C5: when a run requests the single leaf L of a suite with several cases and
\* the adapters return exactly one result, whose identifier is that of L, then
\* L is the only node on which the run reports a status.
C5_OnlyRequestedLeafGetsStatus ==
    \A r \in Run :
        LET rec == runs[r]
            inc == rec.request.include
        IN (/\ rec.pc = "done"
            /\ ~rec.errored
            /\ inc.defined /\ Len(inc.list) = 1
            /\ ~rec.request.exclude.defined
            /\ inc.list[1] \in Leaves(tree)
            /\ tree[inc.list[1]].parent # 0
            /\ Cardinality(Children(tree, tree[inc.list[1]].parent)) >= 2
            /\ rec.nResults = 1
            /\ inc.list[1] \in rec.exact)
           => {pr[1] : pr \in rec.reported} = {inc.list[1]}

\* C6: the clear of a run is pending, over exactly the nodes the run marked
\* Passed, as long as no runTests call has started since the run ended; a
\* pending clear goes away only when runTests is invoked or when it runs, and
\* it runs only after the 5000 ms delay and then resets every node the run
\* marked Passed.
C6_PassedClearedAfterDelay ==
    /\ [](\A r \in Run :
            (runs[r].pc = "done" /\ MarkedPassed(r) # {} /\ ~runs[r].startedAfterEnd)
                => \/ r \in fired
                   \/ \E x \in timers : x.id = r /\ x.items = MarkedPassed(r))
    /\ [][\A x \in timers :
            (x.id \notin {y.id : y \in timers'})
                => \/ RunStarts
                   \/ /\ x.elapsed >= 5000
                      /\ x.id \in fired'
                      /\ \A n \in MarkedPassed(x.id) : shown'[n] = "unset"]_vars

C6_Witness ==
    \E r \in Run :
        /\ r \in fired
        /\ ~runs[r].startedAfterEnd
        /\ MarkedPassed(r) # {}
        /\ \A n \in MarkedPassed(r) : shown[n] = "unset"

\* C7: no node whose last status in a run is Failed or Skipped is among the
\* nodes the delayed clear of that run resets.
C7_FailedAndSkippedAreNotCleared ==
    \A x \in timers :
        \A n \in x.items : runs[x.id].last[n] \notin {"failed", "skipped"}

\* C8: whenever runTests is invoked, every clear that is pending is cancelled.
C8_RunStartCancelsEveryPendingClear ==
    [][RunStarts => timers' = {}]_vars

\* C9: a run schedules the clear only if it did not enter the error path and
\* at least one node ended the run as Passed.
C9_ClearOnlyAfterSuccessfulRunWithPassed ==
    \A r \in Run :
        runs[r].scheduled =>
            /\ ~runs[r].errored
            /\ \E n \in Nodes(tree) : runs[r].last[n] = "passed"

\* C10: the adapter of a project root is invoked with exactly the collected
\* leaf identifiers that belong to that root, in order.
C10_AdapterGetsLeavesOfItsRoot ==
    \A r \in Run :
        \A i \in 1..Len(runs[r].calls) :
            runs[r].calls[i].testIds =
                testIdsOfRoot(tree, runs[r].items, runs[r].calls[i].folder)

\* The ancestors of node n from its root down to n itself.
RECURSIVE PathTo(_, _)
PathTo(t, n) ==
    IF t[n].parent = 0 THEN <<n>> ELSE Append(PathTo(t, t[n].parent), n)

\* Node a comes before node b in depth-first order (children in insertion
\* order): at the first place where their paths differ, a's is the earlier
\* sibling; an ancestor comes before its descendants.
TreeBefore(t, a, b) ==
    LET pa == PathTo(t, a)
        pb == PathTo(t, b)
    IN \/ Len(pa) < Len(pb) /\ SubSeq(pb, 1, Len(pa)) = pa
       \/ \E k \in 1..Len(pa) :
            /\ k <= Len(pb)
            /\ SubSeq(pa, 1, k - 1) = SubSeq(pb, 1, k - 1)
            /\ pa[k] < pb[k]

\* The childless nodes at or below node n.
LeavesUnder(t, n) ==
    {l \in Leaves(t) : \E k \in 1..Len(PathTo(t, l)) : PathTo(t, l)[k] = n}

\* The nodes of S in depth-first order.
RECURSIVE InTreeOrder(_, _)
InTreeOrder(t, S) ==
    IF S = {} THEN <<>>
    ELSE LET f == CHOOSE x \in S : \A y \in S \ {x} : TreeBefore(t, x, y)
         IN <<f>> \o InTreeOrder(t, S \ {f})

\* The identifiers of the items of the exclusion list.
ExcludedIds(t, request) ==
    IF request.exclude.defined
    THEN {t[request.exclude.list[i]].id : i \in 1..Len(request.exclude.list)}
    ELSE {}

\* The childless nodes a request reaches and does not exclude.
Selected(t, request) ==
    LET from == IF request.include.defined
                THEN {request.include.list[i] : i \in 1..Len(request.include.list)}
                ELSE Children(t, 0)
    IN {l \in Leaves(t) :
          /\ \E n \in from : l \in LeavesUnder(t, n)
          /\ t[l].id \notin ExcludedIds(t, request)}

\* The selected leaves item by item of the inclusion list: for each included
\* item in list order, the selected leaves below it in depth-first order.
RECURSIVE PerIncluded(_, _, _)
PerIncluded(t, request, include) ==
    IF Len(include) = 0 THEN <<>>
    ELSE InTreeOrder(t, LeavesUnder(t, Head(include)) \cap Selected(t, request))
         \o PerIncluded(t, request, Tail(include))

\* A run that has collected its items (a project root was open).
Collected(r) == runs[r].pc # "idle" /\ runs[r].wsf # <<>>

\* The nodes run r marked started or passed to an adapter by identifier.
StartedOrDispatched(r) ==
    {n \in Nodes(tree) :
        \/ \E i \in 1..Len(runs[r].items) : runs[r].items[i] = n
        \/ runs[r].pc = "detect" /\ shown[n] = "started"
        \/ \E c \in 1..Len(runs[r].calls) :
              \E i \in 1..Len(runs[r].calls[c].testIds) :
                 runs[r].calls[c].testIds[i] = tree[n].id}

\* C11 as stated: the collected list is, in depth-first tree order, exactly
\* the childless nodes reachable from the included nodes (from the roots
\* without an inclusion list) whose identifier is not excluded, and no node
\* with children is collected, marked started or passed to an adapter.
C11_CollectsLeavesInTreeOrder ==
    \A r \in Run :
        Collected(r) =>
            /\ runs[r].items = InTreeOrder(tree, Selected(tree, runs[r].request))
            /\ \A n \in StartedOrDispatched(r) : Children(tree, n) = {}

\* C11 as amended: the collected list is, for each item of the inclusion
\* list in list order (for the roots in tree order without an inclusion
\* list), the childless nodes at or below it in depth-first order whose
\* identifier is not excluded; no node with children is collected, marked
\* started or passed to an adapter.
C11_CollectsLeavesPerIncludedItem ==
    \A r \in Run :
        Collected(r) =>
            LET req == runs[r].request
            IN /\ runs[r].items =
                    IF req.include.defined
                    THEN PerIncluded(tree, req, req.include.list)
                    ELSE InTreeOrder(tree, Selected(tree, req))
               /\ \A n \in StartedOrDispatched(r) : Children(tree, n) = {}

C11_Witness ==
    \E r \in Run :
        /\ Collected(r)
        /\ Len(runs[r].request.include.list) = 2
        /\ Children(tree, runs[r].request.include.list[1]) # {}
        /\ runs[r].request.exclude.defined
        /\ Len(runs[r].items) >= 2
        /\ Len(runs[r].calls) = 1

\* The file token of node n: the first '::'-segment of its identifier.
FileToken(t, n) == Split(t[n].id)[1]

\* C13: isSingleTestSuiteRun is true exactly when the inclusion list is
\* present and non-empty, at least one leaf is collected and the file tokens
\* of all collected leaves are equal ignoring letter case.
C13_SingleSuiteIffIncludedAndOneFile ==
    \A r \in Run :
        Collected(r) =>
            LET req == runs[r].request
                items == runs[r].items
            IN runs[r].isSingleSuiteRun <=>
                 /\ req.include.defined
                 /\ Len(req.include.list) > 0
                 /\ Len(items) >= 1
                 /\ \A i, j \in 1..Len(items) :
                       toLowerCase(FileToken(tree, items[i]))
                         = toLowerCase(FileToken(tree, items[j]))

C13_Witness ==
    \E r \in Run :
        /\ Collected(r)
        /\ runs[r].isSingleSuiteRun
        /\ \E i, j \in 1..Len(runs[r].items) :
              FileToken(tree, runs[r].items[i]) # FileToken(tree, runs[r].items[j])

\* The file tokens of the collected leaves of run r, ignoring letter case.
CollectedFiles(r) ==
    {toLowerCase(FileToken(tree, runs[r].items[i])) : i \in 1..Len(runs[r].items)}

\* The files (as extracted from the identifiers) of the collected leaves.
CollectedPaths(r) ==
    {extractFilePathFromTestId(tree[runs[r].items[i]].id) : i \in 1..Len(runs[r].items)}

\* Run r ended normally and the adapters returned a result for every
\* collected leaf under the leaf's own identifier.
ReportedInFull(r) ==
    /\ runs[r].pc = "done"
    /\ ~runs[r].errored
    /\ runs[r].returned
    /\ Len(runs[r].items) >= 1
    /\ \A i \in 1..Len(runs[r].items) : runs[r].items[i] \in runs[r].exact

\* C12 as stated: for every request, when the collected leaves share one
\* file token the overall statistics are not logged and the statistics of
\* that file are; when they span several files, the statistics of each file
\* and the overall statistics are logged.
C12_OverallStatsOnlyAcrossFiles ==
    \A r \in Run :
        ReportedInFull(r) =>
            /\ CollectedPaths(r) \subseteq runs[r].fileStats
            /\ runs[r].overallStats <=> Cardinality(CollectedFiles(r)) >= 2

\* C12 as amended: once an adapter call of the run has returned, the overall
\* statistics are logged unless the request has a non-empty inclusion list
\* and the collected leaves share one file token; the statistics of a file
\* are logged exactly for the files of the returned results, in a run with a
\* non-empty inclusion list over one file for that file only.
C12_OverallStatsUnlessIncludedOneFile ==
    \A r \in Run :
        LET inc == runs[r].request.include
            oneFile == /\ inc.defined
                       /\ Len(inc.list) > 0
                       /\ Cardinality(CollectedFiles(r)) = 1
        IN /\ runs[r].overallStats <=> (runs[r].returned /\ ~oneFile)
           /\ runs[r].fileStats =
                 IF oneFile
                 THEN {f \in runs[r].resultFiles :
                         \E p \in CollectedPaths(r) : toLowerCase(f) = toLowerCase(p)}
                 ELSE runs[r].resultFiles

C12_Witness ==
    \E r \in Run :
        /\ ReportedInFull(r)
        /\ ~runs[r].request.include.defined
        /\ Cardinality(CollectedFiles(r)) = 1
        /\ runs[r].overallStats
        /\ runs[r].fileStats # {}

\* A discovery pass has run to its end.
SomePassDone == \E p \in 1..MaxPasses : disc.pass[p].pc = "done"

\* C14: whenever the tree can be observed, the root items are either the
\* complete tree of the previous pass (nothing before the first pass has
\* ended) or the complete tree of the new pass; an empty or partly filled
\* tree is never observable while a pass is in progress.
C14_TreeReplacedAtomically ==
    profile = "discover" =>
        LET previous == IF SomePassDone THEN CompleteTree ELSE {}
        IN disc.items \in {previous, CompleteTree}

\* The candidate files that parse: readable, with a block recognised.
RECURSIVE ParsingFiles(_)
ParsingFiles(cands) ==
    IF Len(cands) = 0 THEN <<>>
    ELSE (IF Head(cands).content.readable /\ Len(Head(cands).content.blocks) > 0
          THEN <<Head(cands)>> ELSE <<>>)
         \o ParsingFiles(Tail(cands))

\* The number of test cases among the descendants of the given suites.
RECURSIVE LeafCases(_)
LeafCases(suites) ==
    IF Len(suites) = 0 THEN 0
    ELSE Cardinality({i \in 1..Len(Head(suites).blocks) :
                         ~Head(suites).blocks[i].suite})
         + LeafCases(Tail(suites))

\* C15: once the candidate files are enumerated, discoverTests does not fail,
\* and it resolves with one root suite per file that parses, in enumeration
\* order, with nothing for a file that cannot be read or has no recognisable
\* test construct; testCount is the number of test cases in those suites.
C15_DiscoverSkipsFilesThatDoNotParse ==
    profile = "adapter" =>
        /\ adp.pc = "rejected" => adp.next = 0
        /\ adp.pc = "resolved" =>
              LET parsing == ParsingFiles(adp.candidates)
              IN /\ Len(adp.suites) = Len(parsing)
                 /\ \A i \in 1..Len(parsing) :
                       /\ adp.suites[i].path = parsing[i].path
                       /\ adp.suites[i].id = generateId(parsing[i].path)
                       /\ adp.suites[i].blocks = parsing[i].content.blocks
                 /\ adp.testCount = LeafCases(adp.suites)

\* A call has resolved over files of which one cannot be read, one has no
\* test construct and one parses into nested suites.
C15_Witness ==
    /\ profile = "adapter"
    /\ adp.pc = "resolved"
    /\ \E i, j, k \in 1..Len(adp.candidates) :
         /\ adp.candidates[i].content = Unreadable
         /\ adp.candidates[j].content = Scanned(<<>>)
         /\ \E b \in 1..Len(adp.candidates[k].content.blocks) :
               adp.candidates[k].content.blocks[b].parent > 1

\* C16: once a PHPUnit runTests call has resolved and its process has closed
\* or errored, the temporary JUnit report file does not exist, whichever way
\* the call went (success, cancellation before or after the spawn, process
\* error, failed read of the report).
C16_ReportFileRemoved ==
    (/\ rn.kind = "phpunit"
     /\ rn.settled
     /\ (rn.closed \/ rn.errored)
     /\ rn.closeHandler # "reading")
    => rn.report = "none"

\* The result reports some identifier as Passed.
ReportsPassed(v) ==
    \E i \in 1..Len(v.results) : v.results[i].status = "passed"

\* C17: when the PHPUnit executable cannot be run (the process emits 'error',
\* or it closes without a report file and without recognisable output), the
\* result the call resolves with reports no requested identifier as Passed.
C17_UnrunnableNeverPassed ==
    [][(/\ rn.kind = "phpunit"
        /\ ~rn.settled
        /\ rn'.settled
        /\ \/ rn'.errored
           \/ /\ ~rn.closed
              /\ rn'.closed
              /\ rn.report = "none"
              /\ rn.stdout \in {"none", "text"})
       => ~ReportsPassed(rn'.value)]_vars

\* Some line of the output has the marker next to the name of the test.
MarkerNextTo(output, markers, testName) ==
    \E k \in 1..Len(output) : \E m \in markers :
        \/ output[k] = m \o <<" ">> \o testName
        \/ output[k] = testName \o <<" ">> \o m

\* The lines of the output that carry the name of the test.
OwnLines(output, testName) ==
    SelectSeq(output, LAMBDA line : Contains(toLowerCase(line), toLowerCase(testName)))

\* C18: in the console fallback of PHPUnit the status of a requested test is
\* decided by the markers next to its own name only (the lines about other
\* tests do not change it); when two tests are requested and the output has a
\* fail marker next to the first and a pass marker next to the second, the
\* first is Failed and the second is Passed.
C18_StatusFromOwnMarkers ==
    (profile = "console" /\ con.pc = "done") =>
        /\ \A i \in 1..Len(con.testIds) :
              con.results[i].status =
                  consoleStatus(OwnLines(con.output, testNameOf(con.testIds[i])),
                                con.testIds[i])
        /\ (/\ Len(con.testIds) = 2
            /\ MarkerNextTo(con.output, FailMarkers, testNameOf(con.testIds[1]))
            /\ ~MarkerNextTo(con.output, PassMarkers, testNameOf(con.testIds[1]))
            /\ MarkerNextTo(con.output, PassMarkers, testNameOf(con.testIds[2]))
            /\ ~MarkerNextTo(con.output, FailMarkers, testNameOf(con.testIds[2])))
           => (/\ con.results[1].status = "failed"
               /\ con.results[2].status = "passed")

\* The result has a Failed record for the identifier.
ReportsFailed(v, testId) ==
    \E i \in 1..Len(v.results) :
        v.results[i].testId = testId /\ v.results[i].status = "failed"

\* C19: when the Jest process fails to spawn, or closes with an output that
\* holds no JSON, every requested test is reported Failed: the result the call
\* resolves with, from whose records alone the run reports, has a Failed
\* record for each requested identifier.
C19_SpawnOrParseFailureFailsAll ==
    [][(/\ rn.kind = "jest"
        /\ ~rn.settled
        /\ rn'.settled
        /\ \/ rn'.errored
           \/ /\ ~rn.closed
              /\ rn'.closed
              /\ rn.stdout # "json")
       => ReportsFailed(rn'.value, RequestedId)]_vars

\* C20: every result of the Jest runner has a status among Passed, Failed
\* and Skipped: passed gives Passed, failed gives Failed, pending and skipped
\* give Skipped, and any other status string gives Skipped.
C20_JestStatusIsThreeValued ==
    (profile = "json" /\ con.pc = "done") =>
        \A i \in 1..Len(con.results) :
            con.results[i].status =
                (CASE con.output[i].status = "passed" -> "passed"
                   [] con.output[i].status = "failed" -> "failed"
                   [] OTHER -> "skipped")

\* The number of records of the result that carry the status.
RecordsWith(v, st) ==
    Cardinality({i \in 1..Len(v.results) : v.results[i].status = st})

\* C21: in every result a runner call resolves with, the counters passed,
\* failed and skipped equal the numbers of records with that status.
C21_CountersAgreeWithRecords ==
    rn.settled =>
        /\ rn.value.passed = RecordsWith(rn.value, "passed")
        /\ rn.value.failed = RecordsWith(rn.value, "failed")
        /\ rn.value.skipped = RecordsWith(rn.value, "skipped")

\* The position of the --testNamePattern flag in the arguments, 0 if absent.
PatternFlagAt(args) ==
    IF \E i \in 1..Len(args) : args[i] = <<"--testNamePattern">>
    THEN CHOOSE i \in 1..Len(args) : args[i] = <<"--testNamePattern">>
    ELSE 0

\* The identifiers of the list that have a segment after the file token.
WithNames(testIds) == SelectSeq(testIds, LAMBDA id : IndexOfSep(id, 1) > 0)

\* The names of an identifier: what follows the file token and its separator.
NamesOf(id) == SubSeq(id, IndexOfSep(id, 1) + 2, Len(id))

\* The separators of the names replaced by single spaces.
RECURSIVE SpacedNames(_)
SpacedNames(s) ==
    LET k == IndexOfSep(s, 1)
    IN IF k = 0 THEN s
       ELSE SubSeq(s, 1, k - 1) \o <<" ">> \o SpacedNames(SubSeq(s, k + 2, Len(s)))

\* C22: the Jest command line has a --testNamePattern argument exactly when
\* some identifier has a segment after the file token; its value is then the
\* '|'-join, in identifier order, of the names of each such identifier joined
\* by single spaces, metacharacters escaped; it is never empty and a file-only
\* identifier contributes nothing to it.
C22_PatternFromNamedIdentifiers ==
    (profile = "args" /\ con.pc = "done") =>
        LET named == WithNames(con.testIds)
            at == PatternFlagAt(con.results)
        IN /\ (at > 0) = (Len(named) > 0)
           /\ at > 0 =>
                 /\ at < Len(con.results)
                 /\ con.results[at + 1] =
                       <<"\"">>
                       \o Join([i \in 1..Len(named) |->
                                  escapeRegexPattern(SpacedNames(NamesOf(named[i])))],
                               <<"|">>)
                       \o <<"\"">>
                 /\ Len(con.results[at + 1]) > 2

\* The command line was built for a list that mixes a file-only identifier
\* with two identifiers that have names.
C22_Witness ==
    /\ profile = "args"
    /\ con.pc = "done"
    /\ Len(WithNames(con.testIds)) = 2
    /\ Len(con.testIds) = 3
    /\ PatternFlagAt(con.results) > 0

\* C23: in the tree a parser returns, the file-level root has no parentId and
\* the file token as identifier; every other node has as parentId the
\* identifier of the node whose child it is, and as identifier that
\* identifier followed by '::' and its own name.
C23_IdentifierExtendsParent ==
    (profile = "ids" /\ con.pc = "done") =>
        \A i \in 1..Len(con.results) :
            LET node == con.results[i]
            IN IF node.container = 0
               THEN /\ node.parentId = <<>>
                    /\ node.id = <<"_", "p", "_", "f">>
               ELSE /\ node.parentId = con.results[node.container].id
                    /\ node.id = con.results[node.container].id \o Sep \o node.name

\* A file was converted that nests a block in a block of the file.
C23_Witness ==
    /\ profile = "ids"
    /\ con.pc = "done"
    /\ \E i \in 1..Len(con.results) : con.results[i].container > 1

\* C24: no two nodes of the tree a discovery pass builds from a file have the
\* same identifier, whatever the file holds.
C24_IdentifiersUnique ==
    (profile = "ids" /\ con.pc = "done") =>
        \A i, j \in 1..Len(con.results) :
            con.results[i].id = con.results[j].id => i = j

\* The file token and the names of the blocks that enclose node i, with its
\* own name last.
RECURSIVE NameChain(_, _)
NameChain(nodes, i) ==
    IF nodes[i].container = 0 THEN <<nodes[i].id>>
    ELSE Append(NameChain(nodes, nodes[i].container), nodes[i].name)

\* C25: when none of the names on the way to a node contains '::', splitting
\* the identifier of the node on '::' gives back the file token and those
\* names in order.
C25_SplitRecoversNames ==
    (profile = "ids" /\ con.pc = "done") =>
        \A i \in 1..Len(con.results) :
            LET chain == NameChain(con.results, i)
            IN (\A k \in 1..Len(chain) : IndexOfSep(chain[k], 1) = 0)
               => Split(con.results[i].id) = chain

\* The adapters the registry holds, in the order of the registerAdapter
\* calls that passed them.
InstalledInCallOrder ==
    SelectSeq(adp.registered,
              LAMBDA a : \E i \in 1..Len(adp.adapters) : adp.adapters[i] = a)

\* C26: detectFramework probes the registered adapters in the order of the
\* registerAdapter calls that installed them, stops at the first that
\* detects and returns it, and returns undefined when none detects.
C26_FirstDetectingInRegistrationOrder ==
    (profile = "registry" /\ adp.pc = "done") =>
        LET order == InstalledInCallOrder
            hits == {i \in 1..Len(order) : order[i].detects}
        IN IF hits = {}
           THEN adp.result = NoAdapter /\ adp.probed = order
           ELSE /\ adp.result = order[SetMin(hits)]
                /\ adp.probed = SubSeq(order, 1, SetMin(hits))

\* C27: the registry holds at most one adapter per framework, getAdapter
\* gives the adapter most recently registered for the framework (undefined
\* if there is none), and getAdapter and getAllAdapters leave the registry
\* as it is.
C27_OneAdapterPerFramework ==
    [][profile = "registry" =>
        /\ \A i, j \in 1..Len(adp'.adapters) :
              adp'.adapters[i].framework = adp'.adapters[j].framework => i = j
        /\ \A fw \in {"jest", "phpunit"} :
              LET calls == {k \in 1..Len(adp'.registered) :
                              adp'.registered[k].framework = fw}
              IN getAdapter(adp'.adapters, fw) =
                   (IF calls = {} THEN NoAdapter
                    ELSE adp'.registered[SetMax(calls)])
        /\ adp'.got # adp.got => adp'.adapters = adp.adapters]_vars

\* An adapter was registered for a framework that had one, and getAdapter
\* was called afterwards.
C27_Witness ==
    /\ profile = "registry"
    /\ Len(adp.registered) > Len(adp.adapters)
    /\ Len(adp.adapters) = 2
    /\ Len(adp.got) = 1

\* A file detectFramework looks for is in the folder.
SomeFileExists ==
    \/ \E i \in 1..Len(adp.configs) : adp.configs[i] = "exists"
    \/ adp.artisan = "exists"

\* C28: detectFramework of either adapter settles with a boolean and never
\* throws, whatever is missing, unreadable or malformed in the folder, and
\* it is true only if the manifest names the framework or a file it looks
\* for is there: a failure to read is not a detection.
C28_DetectionNeverThrows ==
    (profile = "detect" /\ adp.pc = "done") =>
        /\ adp.result \in {"true", "false"}
        /\ adp.result = "true" =>
              (adp.manifest \in {"dependency", "devDependency"} \/ SomeFileExists)

\* Detection has settled on a folder whose manifest cannot be read or
\* parsed and where a stat fails for a reason other than absence.
C28_Witness ==
    /\ profile = "detect"
    /\ adp.pc = "done"
    /\ adp.manifest \in {"unreadable", "malformed", "null"}
    /\ \E i \in 1..Len(adp.configs) : adp.configs[i] = "ioError"
    /\ adp.result = "false"

\* C29: the Jest adapter detects a folder whose package.json names jest
\* among its dependencies or development dependencies, and a folder that
\* holds one of the Jest configuration files, with or without a readable
\* package.json.
C29_JestDetectedByManifestOrConfig ==
    (profile = "detect" /\ adp.pc = "done" /\ adp.framework = "jest") =>
        /\ adp.manifest \in {"dependency", "devDependency"} => adp.result = "true"
        /\ (\E i \in 1..Len(adp.configs) : adp.configs[i] = "exists")
              => adp.result = "true"

\* The values the close handler of a runner can resolve with.
CloseValues ==
    IF rn.kind = "jest" THEN {parseJestOutput(rn.stdout)}
    ELSE {parsePhpunitOutput(rn.stdout), parseJunitXml("junit"), parseJunitXml("text")}

\* C30: the value runTests resolves to is the one of the first of
\* cancellation, 'close' and 'error' (the empty result for a cancellation or
\* an error, what the close handler parsed for a close), no later event
\* changes it, and a cancellation after 'close' or 'error' does not kill the
\* process.
C30_FirstEventFixesValue ==
    [][profile = "runner" =>
        /\ rn.settled => (rn'.settled /\ rn'.value = rn.value)
        /\ rn'.settled =>
              /\ rn'.first \in {"cancel", "error"} => rn'.value = EmptyResult
              /\ rn'.first = "close" => rn'.value \in CloseValues
        /\ (rn'.cancelRequested /\ ~rn.cancelRequested /\ (rn.closed \/ rn.errored))
              => rn'.kills = rn.kills]_vars

\* The passes that were started, and the one started last.
StartedPasses == {p \in 1..MaxPasses : disc.pass[p].pc # "idle"}

\* C31: once several discovery passes were started and each has run to its
\* end, the tree holds exactly the suites the pass started last has found;
\* nothing that only an earlier pass has found is left.
C31_TreeOfLatestPass ==
    (/\ profile = "discover"
     /\ Cardinality(StartedPasses) >= 2
     /\ \A p \in StartedPasses : disc.pass[p].pc = "done")
        => disc.items = disc.pass[SetMax(StartedPasses)].found

\* Item n is not in the controller any more: the root above it was dropped.
RECURSIVE Dropped(_, _)
Dropped(t, n) ==
    IF t[n].parent = -1 THEN TRUE
    ELSE IF t[n].parent = 0 THEN FALSE
    ELSE Dropped(t, t[n].parent)

\* C32: when discoverAllTests has cleared the tree while a run awaits its
\* adapter, the results the adapter returns give no status to an item the
\* run collected and marked started: their identifiers resolve to no item
\* or to an item created after the clear.
C32_RediscoveryOrphansStartedLeaves ==
    [][profile = "rerun" =>
        \A r \in 1..runLimit :
            (runs[r].pc = "adapter" /\ runs'[r].pc # "adapter" /\ ~runs'[r].errored) =>
                \A i \in 1..Len(runs[r].items) :
                    Dropped(tree, runs[r].items[i]) =>
                        /\ runs'[r].last[runs[r].items[i]] = runs[r].last[runs[r].items[i]]
                        /\ shown'[runs[r].items[i]] = shown[runs[r].items[i]]]_vars

\* A run has ended whose adapter returned a result for a collected leaf
\* after the tree was cleared, and the leaf is left as started.
C32_Witness ==
    /\ profile = "rerun"
    /\ \E r \in 1..runLimit :
         /\ runs[r].pc = "done"
         /\ ~runs[r].errored
         /\ \E i \in 1..Len(runs[r].items) :
              LET n == runs[r].items[i]
              IN /\ Dropped(tree, n)
                 /\ n \in runs[r].exact
                 /\ runs[r].last[n] = "none"
                 /\ shown[n] = "started"

\* C33: after events that each follow the previous one by less than the
\* debounce delay the callback runs once, one delay after the last event
\* (not before, and before more time has passed), and it does not run
\* after dispose().
C33_DebouncedCallbackOnce ==
    /\ [](profile = "watch" =>
            /\ con.calls <= 1
            /\ con.calls = 1 =>
                  /\ con.calledAt >= FILE_WATCHER_DEBOUNCE_MS
                  /\ con.calledAt < FILE_WATCHER_DEBOUNCE_MS + WatchTickMs
            /\ (con.pc = "watching" /\ con.events > 0
                  /\ con.sinceEvent >= FILE_WATCHER_DEBOUNCE_MS
                  /\ con.pending = {}) => con.calls = 1)
    /\ [][(profile = "watch" /\ con.pc = "disposed") => con'.calls = con.calls]_vars

\* The callback has run after three events less than the delay apart, one
\* of them some time after the one before, and the watcher was disposed of.
C33_Witness ==
    /\ profile = "watch"
    /\ con.burst >= 3
    /\ con.calls = 1
    /\ con.pc = "disposed"

OwnIds(testIds, case) ==
    {testIds[k] : k \in {j \in 1..Len(testIds) :
        LET parts == Split(testIds[j])
        IN /\ Len(parts) >= 2
           /\ parts[Len(parts)] = case.name
           /\ \/ parts[1] = generateId(case.file)
              \/ parts[Len(parts) - 1] = case.className}}

\* C35: parseJunitXml gives each testcase record the requested identifier
\* that names it, if one was requested, and no requested identifier gets
\* the records of testcases with different names, in whatever order the
\* identifiers were requested.
C35_JunitRecordGetsOwnIdentifier ==
    (profile = "junit" /\ con.pc = "done") =>
        /\ \A i \in 1..Len(con.output) :
              OwnIds(con.testIds, con.output[i]) # {} =>
                  con.results[i].testId \in OwnIds(con.testIds, con.output[i])
        /\ \A i, j \in 1..Len(con.output) :
              (/\ con.output[i].name # con.output[j].name
               /\ \E k \in 1..Len(con.testIds) : con.testIds[k] = con.results[i].testId)
                  => con.results[i].testId # con.results[j].testId

\* C36: every test block is parsed as a child of the innermost describe
\* that is open on its line (a top-level block when none is), also when it
\* follows a test of the same describe whose body ends with '});'.
C36_TestIsChildOfOpenDescribe ==
    (profile = "parse" /\ con.pc = "done") =>
        \A b \in 1..Len(con.results) :
            con.results[b].type = "test" =>
                LET open == OpenDescribes(con.output, con.results[b].line - 1)
                    parent == con.results[b].parent
                IN (IF parent = 0 THEN 0 ELSE con.results[parent].line)
                     = (IF Len(open) = 0 THEN 0 ELSE open[Len(open)])

\* C37: at most one clear of passed results is pending at any moment, and
\* it is the timer clearResultsTimeout refers to, also when runs overlap.
C37_OnePendingClear ==
    profile = "timers" =>
        /\ Cardinality(timers) <= 1
        /\ \A x \in timers : x.id = clearResultsTimeout

\* The identifier of item n is, letter case aside, the join of the first k
\* segments of the identifier looked up, for some k >= 1.
MatchesPrefix(t, n, testId) ==
    \E k \in 1..Len(Split(testId)) :
        toLowerCase(t[n].id) = toLowerCase(Join(SubSeq(Split(testId), 1, k), Sep))

\* C38: findTestItem returns undefined or an item whose identifier is,
\* letter case aside, the join of the first k segments of the identifier
\* looked up; the items above it match such a prefix as well, so it lies on
\* no other branch and was reached through matched items only.
C38_FoundItemMatchesPrefix ==
    (profile = "find" /\ found # NotCalled /\ found # NoItem) =>
        \A i \in 1..Len(PathTo(tree, found)) :
            MatchesPrefix(tree, PathTo(tree, found)[i], reqId)

\* A lookup has gone down two levels and returned an item whose identifier
\* is a proper prefix of the one looked up.
C38_Witness ==
    /\ profile = "find"
    /\ found # NotCalled
    /\ found # NoItem
    /\ Len(PathTo(tree, found)) >= 3
    /\ toLowerCase(tree[found].id) # toLowerCase(reqId)

\* C39: a run is ended once and not again, whichever way runTests leaves
\* (no project root, the end of the loop, the catch block), and it is ended
\* when its awaits settle; every collected item is shown as started when
\* the first adapter is called; nothing is reported on a run that was ended.
C39_RunEndedExactlyOnce ==
    /\ [](profile = "rerun" =>
            \A r \in 1..MaxRuns :
                /\ runs[r].ends <= 1
                /\ runs[r].pc = "done" => runs[r].ends = 1)
    /\ [][profile = "rerun" =>
            \A r \in 1..MaxRuns :
                /\ runs[r].ended => runs'[r].reported = runs[r].reported
                /\ (Len(runs[r].calls) = 0 /\ Len(runs'[r].calls) = 1) =>
                      \A i \in 1..Len(runs[r].items) :
                          shown[runs[r].items[i]] = "started"]_vars
    /\ (runs[1].pc # "idle") ~> (runs[1].ends = 1)

\* A run over two project roots has called an adapter, entered the catch
\* block at the second root and was ended.
C39_Witness ==
    /\ profile = "rerun"
    /\ runs[1].ends = 1
    /\ runs[1].errored
    /\ Len(runs[1].calls) >= 1
    /\ runs[1].folder = 2

====
